---- MODULE Spec2Model ----
(***************************************************************************)
(* Ingestion pipeline of the higher-education statistics store:            *)
(* File Classifier -> Sheet Parser (with the Institution Resolver) ->      *)
(* Loader -> relational store (schema.sql).                                *)
(*                                                                         *)
(* The store's tables and their constraints are those of schema.sql.       *)
(* The classifier, resolver, parser and loader (ingest.py) are described   *)
(* by the design document, sections 4.1 to 4.4, 5 and 7.                   *)
(***************************************************************************)
EXTENDS Integers, Sequences, FiniteSets, TLC

\* Longest batch of files handed to one pipeline run.
MaxBatch == 3

(***************************************************************************)
(* Source data: institution name strings as they appear in a spreadsheet.  *)
(* text is the wording, caps its capitalisation/spacing/punctuation style, *)
(* code the trailing government code ("" when the string carries none).    *)
(***************************************************************************)
UniX == [text |-> "university x", caps |-> TRUE, code |-> "1234"]

UniXLower == [text |-> "university x", caps |-> FALSE, code |-> "1234"]

UniXOld == [text |-> "x institute of technology", caps |-> TRUE, code |-> "1234"]

UniY == [text |-> "university y", caps |-> TRUE, code |-> "5678"]

NoCodeZ == [text |-> "college z", caps |-> TRUE, code |-> ""]

\* fields_of_education: the reference rows (ids 1..13, 11..13 being the
\* fields without heatmap data).
FieldIds == 1..13

\* The five fact tables of the schema.
FactTables ==
  {"attrition_retention", "completion_rates", "enrolments", "completions",
   "course_level_mix"}

\* One sheet row: the target table, the institution name cell, the remaining
\* dimensions (year / cohort, student type, measure) as dims, the numeric
\* value and the field-of-education code (0: the table row has no field).
SheetRow(t, n, d, v, f) ==
  [table |-> t, name |-> n, dims |-> d, value |-> v, field |-> f]

\* The source files of the model: marker is what the classifier peeks at.
FileDef ==
  [ attr_a |->
      [marker |-> "Section 15",
       rows |-> << SheetRow("attrition_retention", UniX, 2019, 10, 0),
                   SheetRow("attrition_retention", UniXLower, 2020, 12, 0) >>],
    attr_b |->
      [marker |-> "Section 15",
       rows |-> << SheetRow("attrition_retention", UniXOld, 2019, 11, 0),
                   SheetRow("attrition_retention", NoCodeZ, 2019, 5, 0),
                   SheetRow("attrition_retention", UniY, 2019, 7, 0) >>],
    enr_a |->
      [marker |-> "Section 2",
       rows |-> << SheetRow("enrolments", UniX, 2019, 100, 1),
                   SheetRow("course_level_mix", UniX, 2019, 100, 0) >>],
    enr_bad |->
      [marker |-> "Section 2",
       rows |-> << SheetRow("enrolments", UniY, 2019, 50, 1),
                   SheetRow("enrolments", UniX, 2019, 60, 99) >>],
    comp_a |->
      [marker |-> "Section 14",
       rows |-> << SheetRow("completions", UniY, 2019, 20, 1) >>],
    cohort_a |->
      [marker |-> "Section 17",
       rows |-> << SheetRow("completion_rates", UniY, 2015, 60, 0) >>],
    workbook |->
      [marker |-> "Section 15",
       rows |-> << SheetRow("attrition_retention", UniX, 2021, 9, 0),
                   SheetRow("attrition_retention", UniXOld, 2022, 8, 0) >>],
    empty |->
      [marker |-> "Section 15", rows |-> << >>],
    notes |->
      [marker |-> "readme", rows |-> << >>] ]

FileNames == DOMAIN FileDef

KnownMarkers == {"Section 1", "Section 2", "Section 14", "Section 15",
                 "Section 16", "Section 17"}

(***************************************************************************)
(* 4.1 File Classifier                                                     *)
(***************************************************************************)
Classify(f) ==
  IF FileDef[f].marker \in KnownMarkers
  THEN FileDef[f].marker
  ELSE "UnclassifiableFile"

(***************************************************************************)
(* 4.2 Institution Resolver: pure parts                                    *)
(***************************************************************************)
\* Normalisation folds case, whitespace and punctuation; the wording and the
\* trailing code survive.
Normalize(raw) == [text |-> raw.text, code |-> raw.code]

ExtractCode(norm) == norm.code

MaxId(ids) == IF ids = {} THEN 0 ELSE CHOOSE m \in ids : \A k \in ids : k <= m

\* SELECT id FROM institutions WHERE code = c (0: no row).
IdByCode(insts, c) ==
  IF \E i \in insts : i.code = c
  THEN (CHOOSE i \in insts : i.code = c).id
  ELSE 0

\* SELECT institution_id FROM institution_aliases WHERE alias = a (0: no row).
IdByAlias(als, a) ==
  IF \E r \in als : r.alias = a
  THEN (CHOOSE r \in als : r.alias = a).institution_id
  ELSE 0

\* Resolver lookup: by code when the string carries one, else by alias.
Lookup(insts, als, raw) ==
  IF ExtractCode(Normalize(raw)) # ""
  THEN IdByCode(insts, ExtractCode(Normalize(raw)))
  ELSE IdByAlias(als, Normalize(raw))

(***************************************************************************)
(* schema.sql: the tables' constraints                                     *)
(***************************************************************************)
\* institutions.id INTEGER PRIMARY KEY: the next rowid.
NextInstitutionId(insts) == MaxId({i.id : i \in insts}) + 1

\* institutions.code TEXT UNIQUE: would a plain INSERT of code c be refused?
CodeTaken(insts, c) == \E i \in insts : i.code = c

\* Fault: id declared without PRIMARY KEY, so no rowid is stored in it.
InsertInstitutionNoRowid(insts, c, n) ==
  insts \cup {[id |-> 0, code |-> c, name |-> n]}

InsertInstitution(insts, c, n) ==
  insts \cup {[id |-> NextInstitutionId(insts), code |-> c, name |-> n]}

\* Fault: the primary key is on institution_id, so a new variant replaces
\* the institution's earlier alias.
AliasKeyedByInstitution(als, a, id) ==
  {r \in als : r.institution_id # id} \cup {[alias |-> a, institution_id |-> id]}

\* institution_aliases.alias TEXT PRIMARY KEY, written with INSERT OR IGNORE.
AliasInsertOrIgnore(als, a, id) ==
  IF \E r \in als : r.alias = a
  THEN als
  ELSE als \cup {[alias |-> a, institution_id |-> id]}

\* Fault: the reference to institutions(id) is not enforced.
AnyInstitution(insts, id) == TRUE

\* institution_id INTEGER NOT NULL REFERENCES institutions(id).
ValidInstitution(insts, id) == \E i \in insts : i.id = id

\* field_id INTEGER REFERENCES fields_of_education(id); NULL is allowed.
ValidField(f) == f = 0 \/ f \in FieldIds

\* The UNIQUE(...) constraint each fact table declares over its dimensions.
HasUniqueKey(t) ==
  t \in {"attrition_retention", "completion_rates", "course_level_mix"}

\* Fault: the UNIQUE key leaves the year (cohort) columns out.
DimKeyWithoutYear(r) == << r.institution_id, r.field_id >>

\* The full dimension key of a fact row.
DimKey(r) == << r.institution_id, r.dims, r.field_id >>

\* INSERT OR REPLACE: rows that collide with the new row on a UNIQUE
\* constraint of the table are deleted, then the new row is appended.
Collides(t, old, new) == HasUniqueKey(t) /\ DimKey(old) = DimKey(new)

InsertOrReplace(rows, t, new) ==
  SelectSeq(rows, LAMBDA old : ~Collides(t, old, new)) \o << new >>

\* Fault: filename is not UNIQUE, so every load adds a row.
RecordIngestionAppend(ing, rec) == Append(ing, rec)

\* ingested_files.filename TEXT UNIQUE NOT NULL, written with INSERT OR REPLACE.
RecordIngestion(ing, rec) ==
  SelectSeq(ing, LAMBDA old : old.filename # rec.filename) \o << rec >>

EmptyFacts == [t \in FactTables |-> << >>]


(***************************************************************************)
(* State                                                                   *)
(***************************************************************************)
VARIABLES
  batch,        \* the files handed to this run, in release order
  queue,        \* the files of the batch not yet taken
  pool,         \* the workers of this run (one: sequential; two: parallel parsing)
  pc,           \* per worker: "idle", "parse", "resolving", "write", "abort"
  cur,          \* per worker: the file in hand ("" when idle)
  idx,          \* per worker: the next sheet row (parse) or pending row (write)
  found,        \* per worker: what the resolver's lookup returned
  pending,      \* per worker: the fact rows the parser has yielded
  mutex,        \* the resolver's single-writer lock: "free" or its holder
  dblock,       \* the store's write lock: "free" or the writer in a transaction
  institutions, \* table institutions
  aliases,      \* table institution_aliases
  facts,        \* the committed fact tables
  work,         \* the fact tables as the writing connection sees them
  ingested,     \* table ingested_files
  order,        \* history: the files whose load committed, in commit order
  prev,         \* history: the committed fact tables before the last commit
  skipped,      \* log: files skipped or rolled back, with the reason
  dropped,      \* log: sheet rows dropped by the parser
  resolved,     \* history: what the resolver returned for each name it resolved
  reply,        \* the analytics engine's response to the last query
  equity,       \* the equity performance rows (Section 16) the engine reads
  app,          \* the App component: its state and its requests in flight
  cv            \* the CoursesView component: its courses and its filters

vars ==
  << batch, queue, pool, pc, cur, idx, found, pending, mutex, dblock,
     institutions, aliases, facts, work, ingested, order, prev, skipped,
     dropped, resolved, reply, equity, app, cv >>

\* A nullable value: Null, or Some(v).
Null == << >>

Some(v) == << v >>

\* No query has been answered yet.
NoReply == [kind |-> "none"]

\* The frontend is not mounted while the backend is looked at on its own.
Unmounted ==
  /\ app = Null
  /\ cv = Null

Workers == {"w1", "w2"}

RECURSIVE SeqsUpTo(_, _)
SeqsUpTo(S, n) ==
  IF n = 0
  THEN {<< >>}
  ELSE SeqsUpTo(S, n - 1) \cup
       {Append(q, x) : q \in {p \in SeqsUpTo(S, n - 1) : Len(p) = n - 1}, x \in S}

\* The store after schema.sql has run, before any ingestion.
InitStore ==
  /\ institutions = {}
  /\ aliases = {}
  /\ facts = EmptyFacts
  /\ work = EmptyFacts
  /\ ingested = << >>
  /\ order = << >>
  /\ prev = EmptyFacts
  /\ skipped = {}
  /\ dropped = {}
  /\ resolved = {}
  /\ reply = NoReply
  /\ equity = {}
  /\ Unmounted

InitWorkers ==
  /\ pc = [w \in Workers |-> "idle"]
  /\ cur = [w \in Workers |-> ""]
  /\ idx = [w \in Workers |-> 0]
  /\ found = [w \in Workers |-> 0]
  /\ pending = [w \in Workers |-> << >>]
  /\ mutex = "free"
  /\ dblock = "free"

\* A sequential run over any batch of at most MaxBatch files.
Init ==
  /\ batch \in SeqsUpTo(FileNames, MaxBatch)
  /\ queue = batch
  /\ pool = {"w1"}
  /\ InitWorkers
  /\ InitStore

\* Two files processed concurrently by two workers.
InitPar ==
  /\ batch \in {<< f, g >> : f \in FileNames, g \in FileNames}
  /\ queue = batch
  /\ pool = Workers
  /\ InitWorkers
  /\ InitStore

(***************************************************************************)
(* 4.3 Sheet Parser and 4.2 Institution Resolver                           *)
(***************************************************************************)
\* The fact row the parser yields for a sheet row of file f resolved to id.
FactRow(row, id, f) ==
  [table |-> row.table, institution_id |-> id, dims |-> row.dims,
   value |-> row.value, field_id |-> row.field, source_file |-> f]

\* Fault: the resolver is entered without taking the lock.
NoMutex(w) == TRUE

\* The resolver's single-writer discipline: a worker enters only when no
\* other worker is inside.
MutexFree(w) == mutex = "free"

\* What the resolver does with a name once the lookup has returned fnd:
\* the institutions and aliases afterwards, the id it returns and the error
\* it raises ("" for none).
Resolve(insts, als, raw, fnd) ==
  LET n == Normalize(raw)
      c == ExtractCode(n)
  IN  IF c # ""
      THEN IF fnd # 0
           THEN [insts |-> insts, als |-> AliasInsertOrIgnore(als, n, fnd),
                 id |-> fnd, err |-> ""]
           ELSE IF CodeTaken(insts, c)
                THEN [insts |-> insts, als |-> als, id |-> 0,
                      err |-> "IntegrityError"]
                ELSE [insts |-> InsertInstitution(insts, c, raw.text),
                      als |-> AliasInsertOrIgnore(als, n, NextInstitutionId(insts)),
                      id |-> NextInstitutionId(insts), err |-> ""]
      ELSE IF ValidInstitution(insts, fnd)
           THEN [insts |-> insts, als |-> als, id |-> fnd, err |-> ""]
           ELSE [insts |-> insts, als |-> als, id |-> 0,
                 err |-> "UnresolvedInstitution"]

\* Fault: the parser leaves the sheet at the first unresolved row.
StopAfterDroppedRow(i, n) == n + 1

\* The parser's per-row skip: after dropping sheet row i of n it goes on
\* with row i + 1.
AfterDroppedRow(i, n) == i + 1

Take(w) ==
  /\ UNCHANGED << reply, equity, app, cv >>
  /\ pc[w] = "idle"
  /\ queue # << >>
  /\ queue' = Tail(queue)
  /\ IF Classify(Head(queue)) = "UnclassifiableFile"
     THEN /\ skipped' = skipped \cup
                 {[file |-> Head(queue), reason |-> "UnclassifiableFile"]}
          /\ UNCHANGED << pc, cur, idx, pending >>
     ELSE /\ pc' = [pc EXCEPT ![w] = "parse"]
          /\ cur' = [cur EXCEPT ![w] = Head(queue)]
          /\ idx' = [idx EXCEPT ![w] = 1]
          /\ pending' = [pending EXCEPT ![w] = << >>]
          /\ UNCHANGED skipped
  /\ UNCHANGED << batch, pool, found, mutex, dblock, institutions, aliases,
                  facts, work, ingested, order, prev, dropped, resolved >>

\* The resolver is entered for the next sheet row: lock, then look up.
ResolveBegin(w) ==
  /\ UNCHANGED << reply, equity, app, cv >>
  /\ pc[w] = "parse"
  /\ idx[w] <= Len(FileDef[cur[w]].rows)
  /\ MutexFree(w)
  /\ mutex' = w
  /\ found' = [found EXCEPT ![w] =
                 Lookup(institutions, aliases, FileDef[cur[w]].rows[idx[w]].name)]
  /\ pc' = [pc EXCEPT ![w] = "resolving"]
  /\ UNCHANGED << batch, queue, pool, cur, idx, pending, dblock, institutions,
                  aliases, facts, work, ingested, order, prev, skipped,
                  dropped, resolved >>

\* The resolver creates what is missing, returns and unlocks; the parser
\* yields the fact row, or drops the sheet row, or gives the file up.
ResolveEnd(w) ==
  /\ UNCHANGED << reply, equity, app, cv >>
  /\ pc[w] = "resolving"
  /\ LET row == FileDef[cur[w]].rows[idx[w]]
         res == Resolve(institutions, aliases, row.name, found[w])
     IN  /\ institutions' = res.insts
         /\ aliases' = res.als
         /\ mutex' = "free"
         /\ found' = [found EXCEPT ![w] = 0]
         /\ CASE res.err = "" ->
                   /\ pending' = [pending EXCEPT ![w] =
                                    Append(@, FactRow(row, res.id, cur[w]))]
                   /\ resolved' = resolved \cup {[name |-> row.name, id |-> res.id]}
                   /\ idx' = [idx EXCEPT ![w] = @ + 1]
                   /\ pc' = [pc EXCEPT ![w] = "parse"]
                   /\ UNCHANGED << cur, skipped, dropped >>
              [] res.err = "UnresolvedInstitution" ->
                   /\ dropped' = dropped \cup {[file |-> cur[w], row |-> idx[w]]}
                   /\ idx' = [idx EXCEPT ![w] =
                                AfterDroppedRow(@, Len(FileDef[cur[w]].rows))]
                   /\ pc' = [pc EXCEPT ![w] = "parse"]
                   /\ UNCHANGED << cur, pending, skipped, resolved >>
              [] OTHER ->
                   /\ skipped' = skipped \cup
                          {[file |-> cur[w], reason |-> "ResolverError"]}
                   /\ pc' = [pc EXCEPT ![w] = "idle"]
                   /\ cur' = [cur EXCEPT ![w] = ""]
                   /\ idx' = [idx EXCEPT ![w] = 0]
                   /\ pending' = [pending EXCEPT ![w] = << >>]
                   /\ UNCHANGED << dropped, resolved >>
  /\ UNCHANGED << batch, queue, pool, dblock, facts, work, ingested, order,
                  prev >>

(***************************************************************************)
(* 4.4 Loader                                                              *)
(***************************************************************************)
\* IntegrityViolation: the row would violate a foreign key of its table.
ForeignKeysHold(insts, r) ==
  ValidInstitution(insts, r.institution_id) /\ ValidField(r.field_id)

\* Fault: the failed transaction is not rolled back.
RolledBackKeepsWrites(committed, working) == working

\* What the connection sees after ROLLBACK: the committed tables.
RolledBack(committed, working) == committed

BeginTxn(w) ==
  /\ UNCHANGED << reply, equity, app, cv >>
  /\ pc[w] = "parse"
  /\ idx[w] > Len(FileDef[cur[w]].rows)
  /\ dblock = "free"
  /\ dblock' = w
  /\ pc' = [pc EXCEPT ![w] = "write"]
  /\ idx' = [idx EXCEPT ![w] = 1]
  /\ UNCHANGED << batch, queue, pool, cur, found, pending, mutex, institutions,
                  aliases, facts, work, ingested, order, prev, skipped,
                  dropped, resolved >>

WriteRow(w) ==
  /\ UNCHANGED << reply, equity, app, cv >>
  /\ pc[w] = "write"
  /\ idx[w] <= Len(pending[w])
  /\ LET r == pending[w][idx[w]]
     IN  IF ForeignKeysHold(institutions, r)
         THEN /\ work' = [work EXCEPT ![r.table] = InsertOrReplace(@, r.table, r)]
              /\ idx' = [idx EXCEPT ![w] = @ + 1]
              /\ UNCHANGED pc
         ELSE /\ pc' = [pc EXCEPT ![w] = "abort"]
              /\ UNCHANGED << work, idx >>
  /\ UNCHANGED << batch, queue, pool, cur, found, pending, mutex, dblock,
                  institutions, aliases, facts, ingested, order, prev, skipped,
                  dropped, resolved >>

Commit(w) ==
  /\ UNCHANGED << reply, equity, app, cv >>
  /\ pc[w] = "write"
  /\ idx[w] > Len(pending[w])
  /\ facts' = work
  /\ prev' = facts
  /\ order' = Append(order, cur[w])
  /\ ingested' = RecordIngestion(ingested,
                   [filename |-> cur[w], section |-> Classify(cur[w]),
                    row_count |-> Len(pending[w])])
  /\ dblock' = "free"
  /\ pc' = [pc EXCEPT ![w] = "idle"]
  /\ cur' = [cur EXCEPT ![w] = ""]
  /\ idx' = [idx EXCEPT ![w] = 0]
  /\ pending' = [pending EXCEPT ![w] = << >>]
  /\ UNCHANGED << batch, queue, pool, found, mutex, institutions, aliases,
                  work, skipped, dropped, resolved >>

\* Fault: an IntegrityViolation ends the whole batch.
RollbackEndsBatch(w) ==
  /\ UNCHANGED << reply, equity, app, cv >>
  /\ pc[w] = "abort"
  /\ work' = RolledBack(facts, work)
  /\ skipped' = skipped \cup {[file |-> cur[w], reason |-> "IntegrityViolation"]}
  /\ dblock' = "free"
  /\ queue' = << >>
  /\ pc' = [pc EXCEPT ![w] = "idle"]
  /\ cur' = [cur EXCEPT ![w] = ""]
  /\ idx' = [idx EXCEPT ![w] = 0]
  /\ pending' = [pending EXCEPT ![w] = << >>]
  /\ UNCHANGED << batch, pool, found, mutex, institutions, aliases,
                  facts, ingested, order, prev, dropped, resolved >>

Rollback(w) ==
  /\ UNCHANGED << reply, equity, app, cv >>
  /\ pc[w] = "abort"
  /\ work' = RolledBack(facts, work)
  /\ skipped' = skipped \cup {[file |-> cur[w], reason |-> "IntegrityViolation"]}
  /\ dblock' = "free"
  /\ pc' = [pc EXCEPT ![w] = "idle"]
  /\ cur' = [cur EXCEPT ![w] = ""]
  /\ idx' = [idx EXCEPT ![w] = 0]
  /\ pending' = [pending EXCEPT ![w] = << >>]
  /\ UNCHANGED << batch, queue, pool, found, mutex, institutions, aliases,
                  facts, ingested, order, prev, dropped, resolved >>

Next ==
  \/ \E w \in pool : Take(w)
  \/ \E w \in pool : ResolveBegin(w)
  \/ \E w \in pool : ResolveEnd(w)
  \/ \E w \in pool : BeginTxn(w)
  \/ \E w \in pool : WriteRow(w)
  \/ \E w \in pool : Commit(w)
  \/ \E w \in pool : Rollback(w)

Spec == Init /\ [][Next]_vars

SpecPar == InitPar /\ [][Next]_vars

(***************************************************************************)
(* Reference semantics used by the properties: a file loaded as a whole.   *)
(***************************************************************************)
Range(q) == {q[i] : i \in 1..Len(q)}

Count(q, x) == Cardinality({i \in 1..Len(q) : q[i] = x})

\* Same number of rows and the same rows, whatever their rowid order.
SameContents(a, b) ==
  /\ Len(a) = Len(b)
  /\ \A x \in Range(a) \cup Range(b) : Count(a, x) = Count(b, x)

\* The rows of file f that name an institution known to insts / als, in
\* sheet order, as fact rows.
RECURSIVE WholeRowsIn(_, _, _, _)
WholeRowsIn(insts, als, f, n) ==
  IF n = 0
  THEN << >>
  ELSE LET row == FileDef[f].rows[n]
           id == Lookup(insts, als, row.name)
       IN  IF id = 0
           THEN WholeRowsIn(insts, als, f, n - 1)
           ELSE Append(WholeRowsIn(insts, als, f, n - 1), FactRow(row, id, f))

\* The same with the institutions and aliases of the store as it is.
WholeRows(f, n) == WholeRowsIn(institutions, aliases, f, n)

RECURSIVE ApplyRows(_, _, _)
ApplyRows(db, rows, n) ==
  IF n = 0
  THEN db
  ELSE LET r == rows[n]
           before == ApplyRows(db, rows, n - 1)
       IN  [before EXCEPT ![r.table] = InsertOrReplace(@, r.table, r)]

\* A file whose load cannot commit: no marker matches, or one of its rows
\* carries a field-of-education code the reference table does not hold.
Unclassifiable(f) == FileDef[f].marker \notin KnownMarkers

BadField(f) ==
  \E i \in 1..Len(FileDef[f].rows) :
    /\ FileDef[f].rows[i].name.code # ""
    /\ FileDef[f].rows[i].field # 0
    /\ FileDef[f].rows[i].field \notin FieldIds

Fails(f) == Unclassifiable(f) \/ BadField(f)

\* All of the file's rows, or none of them.
LoadWholeIn(insts, als, db, f) ==
  IF Fails(f)
  THEN db
  ELSE ApplyRows(db, WholeRowsIn(insts, als, f, Len(FileDef[f].rows)),
                 Len(WholeRowsIn(insts, als, f, Len(FileDef[f].rows))))

RECURSIVE ReplayIn(_, _, _, _)
ReplayIn(insts, als, files, n) ==
  IF n = 0
  THEN EmptyFacts
  ELSE LoadWholeIn(insts, als, ReplayIn(insts, als, files, n - 1), files[n])

\* Whole-file loads with the institutions and aliases of the store as it is.
Replay(files, n) == ReplayIn(institutions, aliases, files, n)

\* The institutions and aliases a fresh store holds after the resolver has
\* seen the first n rows of a sheet, and after the first n files of a list.
RECURSIVE ResolvedRows(_, _, _)
ResolvedRows(st, rows, n) ==
  IF n = 0
  THEN st
  ELSE LET before == ResolvedRows(st, rows, n - 1)
           res == Resolve(before.insts, before.als, rows[n].name,
                          Lookup(before.insts, before.als, rows[n].name))
       IN  [insts |-> res.insts, als |-> res.als]

RECURSIVE FreshResolver(_, _)
FreshResolver(files, n) ==
  IF n = 0
  THEN [insts |-> {}, als |-> {}]
  ELSE ResolvedRows(FreshResolver(files, n - 1), FileDef[files[n]].rows,
                    Len(FileDef[files[n]].rows))

\* Fact tables with each row's institution id replaced by the institution's
\* code.
CodeOfId(insts, id) == (CHOOSE i \in insts : i.id = id).code

ByCode(insts, db) ==
  [t \in FactTables |->
     [k \in 1..Len(db[t]) |->
        [db[t][k] EXCEPT !.institution_id = CodeOfId(insts, @)]]]

\* The fact tables a fresh store holds after a sequential run over files.
FreshRun(files) ==
  ReplayIn(FreshResolver(files, Len(files)).insts,
           FreshResolver(files, Len(files)).als, files, Len(files))

Done == queue = << >> /\ \A w \in pool : pc[w] = "idle"

LastCommitted == order[Len(order)]

(***************************************************************************)
(* C1: loading a file and then loading it again leaves every fact table    *)
(* with the same row count and the same rows as after the first load.      *)
(***************************************************************************)
C1_ReloadIsIdempotent ==
  (Len(order) >= 2 /\ order[Len(order) - 1] = LastCommitted)
    => \A t \in FactTables : SameContents(facts[t], prev[t])

\* The last committed load that carried key k of table t.
LastLoadWith(t, k) ==
  LET js == {j \in 1..Len(order) :
               \E r \in Range(WholeRows(order[j], Len(FileDef[order[j]].rows))) :
                 r.table = t /\ DimKey(r) = k}
  IN  order[MaxId(js)]

(***************************************************************************)
(* C2: every fact table holds at most one row per dimension key, and the   *)
(* row stored under a key is the one written by the last committed load    *)
(* that carried the key.                                                   *)
(***************************************************************************)
C2_OneRowPerKeyLastWins ==
  \A t \in FactTables :
    /\ \A i, j \in 1..Len(facts[t]) :
         DimKey(facts[t][i]) = DimKey(facts[t][j]) => i = j
    /\ \A i \in 1..Len(facts[t]) :
         facts[t][i].source_file = LastLoadWith(t, DimKey(facts[t][i]))

(***************************************************************************)
(* C3: the committed fact tables are always the result of whole-file       *)
(* loads: all of a committed file's rows, none of an aborted file's; once  *)
(* no transaction is open the connection sees exactly the committed rows.  *)
(***************************************************************************)
C3_FileLoadsAreAtomic ==
  /\ facts = Replay(order, Len(order))
  /\ dblock = "free" => work = facts

\* A file was rolled back after part of its rows had been written, and
\* another file was committed after it.
C3_Witness ==
  /\ Done
  /\ Len(batch) >= 2
  /\ batch[1] = "enr_bad"
  /\ [file |-> "enr_bad", reason |-> "IntegrityViolation"] \in skipped
  /\ order # << >>
  /\ facts # EmptyFacts

\* The files of a batch whose load can commit, in batch order.
Survivors(files) == SelectSeq(files, LAMBDA f : ~Fails(f))

(***************************************************************************)
(* C4 (as stated): a batch with an unclassifiable file or a file whose     *)
(* write raises IntegrityViolation runs to its end, every other file is    *)
(* committed, and the fact tables end exactly as a run of the batch        *)
(* without the failing files leaves them.                                  *)
(***************************************************************************)
C4_SameStateAsWithoutFailingFile ==
  /\ ~Done => ENABLED Next
  /\ Done =>
       /\ order = Survivors(batch)
       /\ facts = FreshRun(Survivors(batch))

(***************************************************************************)
(* C4 (amended): a batch with an unclassifiable file or a file whose write *)
(* raises IntegrityViolation runs to its end; every other file is          *)
(* committed, in batch order, only the failing files are skipped, and the  *)
(* fact tables hold the rows that the batch without the failing files      *)
(* leaves, each attributed to the institution with the same code; the      *)
(* institution ids are those of the resolver's table, which keeps the      *)
(* institutions a rolled-back file introduced.                             *)
(***************************************************************************)
C4_BatchSurvivesFailingFile ==
  /\ ~Done => ENABLED Next
  /\ Done =>
       /\ order = Survivors(batch)
       /\ {s.file : s \in skipped} = {f \in Range(batch) : Fails(f)}
       /\ ByCode(institutions, facts) =
            ByCode(FreshResolver(Survivors(batch), Len(Survivors(batch))).insts,
                   FreshRun(Survivors(batch)))

\* A batch whose first file is unclassifiable and whose second is rolled
\* back has loaded its third.
C4_Witness ==
  /\ Done
  /\ Len(batch) = 3
  /\ Unclassifiable(batch[1])
  /\ BadField(batch[2])
  /\ ~Fails(batch[3])
  /\ order = << batch[3] >>
  /\ facts # EmptyFacts

(***************************************************************************)
(* C5: every resolution of a name carrying a code succeeds; names with the *)
(* same code, whatever their case, spacing, punctuation or wording, always *)
(* get the same id, which is the id of the one institution with that code. *)
(***************************************************************************)
C5_ResolverIsStable ==
  /\ \A a, b \in resolved : a.name.code = b.name.code => a.id = b.id
  /\ \A a \in resolved :
       \E i \in institutions : i.id = a.id /\ i.code = a.name.code
  /\ \A i, j \in institutions : i.code = j.code => i = j
  /\ \A s \in skipped : s.reason # "ResolverError"

\* The two spellings of one name and a historical name with the same code
\* have all been resolved.
C5_Witness ==
  /\ \E a \in resolved : a.name = UniX
  /\ \E a \in resolved : a.name = UniXLower
  /\ \E a \in resolved : a.name = UniXOld

(***************************************************************************)
(* C6: no step removes an alias row or points an alias at another          *)
(* institution; an alias string never has two rows.                        *)
(***************************************************************************)
C6_AliasesOnlyGrow ==
  [][/\ aliases \subseteq aliases'
     /\ \A a, b \in aliases' : a.alias = b.alias => a = b]_vars

\* Two name variants of one institution are both in the alias table.
C6_Witness ==
  \E a, b \in aliases : a # b /\ a.institution_id = b.institution_id

\* The rows among the first n of file f whose name carries a code.
CodedRows(f, n) == {i \in 1..n : FileDef[f].rows[i].name.code # ""}

\* The sheet rows of its source file a fact row can come from.
SheetRowOf(r) ==
  {i \in 1..Len(FileDef[r.source_file].rows) :
     /\ FileDef[r.source_file].rows[i].table = r.table
     /\ FileDef[r.source_file].rows[i].dims = r.dims
     /\ FileDef[r.source_file].rows[i].value = r.value}

(***************************************************************************)
(* C7: when two files are parsed concurrently, the run ends with one       *)
(* institution row per code and one alias row per string, both files       *)
(* committed, and every fact row attributed to the institution whose code  *)
(* its sheet row names.                                                    *)
(***************************************************************************)
C7_ConcurrentFilesShareInstitution ==
  Done =>
    /\ \A i, j \in institutions : i.code = j.code => i = j
    /\ \A a, b \in aliases : a.alias = b.alias => a = b
    /\ \A f \in Range(batch) : ~Fails(f) => Count(order, f) = Count(batch, f)
    /\ \A f \in Range(order) :
         \A i \in CodedRows(f, Len(FileDef[f].rows)) :
           \E inst \in institutions : \E a \in aliases :
             /\ inst.code = FileDef[f].rows[i].name.code
             /\ a.alias = Normalize(FileDef[f].rows[i].name)
             /\ a.institution_id = inst.id
    /\ \A t \in FactTables : \A k \in 1..Len(facts[t]) :
         \E i \in SheetRowOf(facts[t][k]) :
           \E inst \in institutions :
             /\ inst.id = facts[t][k].institution_id
             /\ inst.code = FileDef[facts[t][k].source_file].rows[i].name.code

\* Two files that both introduce "University X (1234)" were in hand at once
\* (the second of the batch committed first) and both are loaded.
C7_Witness ==
  /\ Done
  /\ batch = << "attr_a", "enr_a" >>
  /\ order = << "enr_a", "attr_a" >>
  /\ Cardinality(institutions) = 1
  /\ Cardinality(aliases) = 1

(***************************************************************************)
(* C8: a name without a code and without an alias creates no institution   *)
(* and no alias; only its row is dropped, the file's other rows are        *)
(* yielded and, when the file commits, loaded.                             *)
(***************************************************************************)
C8_UnresolvedRowIsOnlyDropped ==
  /\ \A i \in institutions : i.code # ""
  /\ \A a \in aliases : a.alias.code # ""
  /\ \A d \in dropped : FileDef[d.file].rows[d.row].name.code = ""
  /\ \A w \in pool :
       pc[w] \in {"parse", "resolving"} =>
         /\ Len(pending[w]) = Cardinality(CodedRows(cur[w], idx[w] - 1))
         /\ \A i \in (1..(idx[w] - 1)) \ CodedRows(cur[w], idx[w] - 1) :
              [file |-> cur[w], row |-> i] \in dropped
  /\ order # << >> =>
       \A i \in CodedRows(LastCommitted, Len(FileDef[LastCommitted].rows)) :
         \E r \in Range(facts[FileDef[LastCommitted].rows[i].table]) :
           /\ r.source_file = LastCommitted
           /\ r.dims = FileDef[LastCommitted].rows[i].dims
           /\ r.value = FileDef[LastCommitted].rows[i].value

\* The file with the unresolvable second row has committed its other rows.
C8_Witness ==
  /\ order # << >>
  /\ LastCommitted = "attr_b"
  /\ [file |-> "attr_b", row |-> 2] \in dropped
  /\ \E r \in Range(facts["attrition_retention"]) :
       r.source_file = "attr_b" /\ r.value = 7

(***************************************************************************)
(* C9: every row of every fact table, committed or in the open             *)
(* transaction, references an institution that exists.                     *)
(***************************************************************************)
C9_NoOrphanFacts ==
  \A t \in FactTables :
    /\ \A k \in 1..Len(facts[t]) :
         \E i \in institutions : i.id = facts[t][k].institution_id
    /\ \A k \in 1..Len(work[t]) :
         \E i \in institutions : i.id = work[t][k].institution_id

\* A run with a rollback, a dropped row and a replaced row.
C9_Witness ==
  /\ Done
  /\ \E s \in skipped : s.reason = "IntegrityViolation"
  /\ dropped # {}
  /\ Len(facts["attrition_retention"]) = 3

(***************************************************************************)
(* C10: ingested_files holds one row per file whose load committed, also   *)
(* for a file without rows, never two rows for one filename; at the end of *)
(* the batch these are the batch's files that did not fail.                *)
(***************************************************************************)
C10_OneIngestionRowPerFile ==
  /\ \A i, j \in 1..Len(ingested) :
       ingested[i].filename = ingested[j].filename => i = j
  /\ {ingested[i].filename : i \in 1..Len(ingested)} = Range(order)
  /\ \A i \in 1..Len(ingested) :
       ingested[i].row_count =
         Cardinality(CodedRows(ingested[i].filename,
                               Len(FileDef[ingested[i].filename].rows)))
  /\ Done =>
       {ingested[i].filename : i \in 1..Len(ingested)} =
         {f \in Range(batch) : ~Fails(f)}

\* The zero-row file has its row, and a file loaded twice has one row.
C10_Witness ==
  /\ Done
  /\ \E i \in 1..Len(ingested) :
       ingested[i].filename = "empty" /\ ingested[i].row_count = 0
  /\ \E f \in Range(order) : Count(order, f) = 2
  /\ Len(ingested) = 2

(***************************************************************************)
(* C11: ingesting the two-sheet workbook, in which University X (1234)     *)
(* appears as "University X" for 2021 and as "X Institute of Technology"   *)
(* for 2022, leaves exactly two fact rows of that file, one per year, both *)
(* with the same institution id, which is the institution with code 1234,  *)
(* and both name variants are aliases of that id. The workbook's load      *)
(* commits in every batch it is part of.                                   *)
(***************************************************************************)
C11_TwoVariantsOneInstitution ==
  /\ (Done /\ "workbook" \in Range(batch)) => "workbook" \in Range(order)
  /\ (order # << >> /\ LastCommitted = "workbook") =>
       LET own == SelectSeq(facts["attrition_retention"],
                            LAMBDA r : r.source_file = "workbook")
       IN  /\ Len(own) = 2
           /\ {own[1].dims, own[2].dims} = {2021, 2022}
           /\ own[1].institution_id = own[2].institution_id
           /\ own[1].institution_id = IdByCode(institutions, "1234")
           /\ \A n \in {UniX, UniXOld} :
                \E a \in aliases :
                  /\ a.alias = Normalize(n)
                  /\ a.institution_id = own[1].institution_id
           /\ \A t \in FactTables \ {"attrition_retention"} :
                \A k \in 1..Len(facts[t]) : facts[t][k].source_file # "workbook"

\* The workbook loaded after a file that made the institution known, and the
\* workbook loaded on its own.
C11_Witness ==
  /\ Done
  /\ batch = << "attr_b", "workbook" >>
  /\ LastCommitted = "workbook"
  /\ Cardinality({a \in aliases : a.institution_id = IdByCode(institutions, "1234")}) = 2

(***************************************************************************)
(* 4.5 Analytics Engine: stateless, read-only queries over the store.      *)
(* Rates are held in tenths of a percentage point.                         *)
(***************************************************************************)
\* Most institutions a store under analysis holds.
MaxInstitutions == 3

Institutions == 1..MaxInstitutions

\* The rational number n / d, d > 0.
Frac(n, d) == [num |-> n, den |-> d]

FracLess(a, b) == a.num * b.den < b.num * a.den

FracLeq(a, b) == a.num * b.den <= b.num * a.den

RECURSIVE SeqOf(_)
SeqOf(S) ==
  IF S = {}
  THEN << >>
  ELSE LET x == CHOOSE e \in S : TRUE IN << x >> \o SeqOf(S \ {x})

RECURSIVE SumOf(_)
SumOf(S) ==
  IF S = {}
  THEN 0
  ELSE LET x == CHOOSE e \in S : TRUE IN x.value + SumOf(S \ {x})

\* The institutions table of a store under analysis.
InstitutionRows(ids) ==
  {[id |-> i, code |-> ToString(i), name |-> "institution"] : i \in ids}

\* A row of attrition_retention: domestic attrition of institution i in year y.
AttritionRow(i, y, v) ==
  [table |-> "attrition_retention", institution_id |-> i, dims |-> y,
   value |-> v, field_id |-> 0, source_file |-> "section15"]

\* The pipeline at rest: nothing is being ingested while the store is read.
StoreAtRest(ids) ==
  /\ batch = << >>
  /\ queue = << >>
  /\ pool = {}
  /\ InitWorkers
  /\ institutions = InstitutionRows(ids)
  /\ aliases = {}
  /\ work = facts
  /\ ingested = << >>
  /\ order = << >>
  /\ prev = EmptyFacts
  /\ skipped = {}
  /\ dropped = {}
  /\ resolved = {}
  /\ reply = NoReply

InitAtRest(ids) ==
  /\ StoreAtRest(ids)
  /\ Unmounted

ingestion ==
  << batch, queue, pool, pc, cur, idx, found, pending, mutex, dblock,
     institutions, aliases, facts, work, ingested, order, prev, skipped,
     dropped, resolved, equity >>

(***************************************************************************)
(* Attrition percentile and risk level                                     *)
(***************************************************************************)
\* The years and rates of the stores the percentile queries are run on.
AttritionYears == {2022, 2023}

PoolRates == {2, 4, 8}

DomesticAttrition(db) == Range(db["attrition_retention"])

\* The most recent year in which institution i has a rate (0: none).
LatestYear(db, i) ==
  MaxId({r.dims : r \in {x \in DomesticAttrition(db) : x.institution_id = i}})

\* The institutions with data in year y, each with its rate.
YearPool(db, y) == {r \in DomesticAttrition(db) : r.dims = y}

RateOf(db, i, y) ==
  (CHOOSE r \in YearPool(db, y) : r.institution_id = i).value

\* Fault: the institutions above are counted, not those below.
PercentileOfAbove(rows, rate) ==
  Frac((2 * Cardinality({r \in rows : r.value > rate})
          + Cardinality({r \in rows : r.value = rate})) * 50,
       Cardinality(rows))

\* percentile = (n_below + 0.5 x n_equal) / total_institutions x 100
Percentile(rows, rate) ==
  Frac((2 * Cardinality({r \in rows : r.value < rate})
          + Cardinality({r \in rows : r.value = rate})) * 50,
       Cardinality(rows))

\* Fault: the boundary percentiles stay in the lower bucket.
RiskLevelBoundaryLow(p) ==
  IF FracLeq(p, Frac(25, 1)) THEN "Low"
  ELSE IF FracLeq(p, Frac(50, 1)) THEN "Medium"
  ELSE IF FracLeq(p, Frac(75, 1)) THEN "High"
  ELSE "Very High"

\* 0 - 24th percentile Low, 25 - 49th Medium, 50 - 74th High, 75th+ Very High.
RiskLevel(p) ==
  IF FracLess(p, Frac(25, 1)) THEN "Low"
  ELSE IF FracLess(p, Frac(50, 1)) THEN "Medium"
  ELSE IF FracLess(p, Frac(75, 1)) THEN "High"
  ELSE "Very High"

\* The help text's bands, by rate: Low (<15%), Medium (15-25%), High (25-35%),
\* Very High (>35%).
HelpTextRiskLevel(rate) ==
  IF rate < 150 THEN "Low"
  ELSE IF rate < 250 THEN "Medium"
  ELSE IF rate <= 350 THEN "High"
  ELSE "Very High"

\* Fault: a percentile is computed over any number of institutions.
AlwaysSufficient(rows) == TRUE

\* A percentile or ranking needs at least 2 institutions.
Sufficient(rows) == Cardinality(rows) >= 2

\* The attrition part of the report for institution i.
AttritionOf(db, i) ==
  LET y == LatestYear(db, i)
      rows == YearPool(db, y)
  IN  IF y = 0
      THEN [kind |-> "attrition", institution_id |-> i, latest_rate |-> Null,
            latest_year |-> Null, national_avg |-> Null, percentile |-> Null,
            risk_level |-> Null]
      ELSE [kind |-> "attrition", institution_id |-> i,
            latest_rate |-> Some(RateOf(db, i, y)),
            latest_year |-> Some(y),
            national_avg |-> Some(Frac(SumOf(rows), Cardinality(rows))),
            percentile |->
              IF Sufficient(rows)
              THEN Some(Percentile(rows, RateOf(db, i, y)))
              ELSE Null,
            risk_level |->
              IF Sufficient(rows)
              THEN Some(RiskLevel(Percentile(rows, RateOf(db, i, y))))
              ELSE Null]

\* Any store of domestic attrition rates: at most one row per institution
\* and year (the table's UNIQUE key).
InitAttrition ==
  /\ \E have \in SUBSET (Institutions \X AttritionYears) :
       \E v \in [have -> PoolRates] :
         facts = [EmptyFacts EXCEPT !["attrition_retention"] =
                    SeqOf({AttritionRow(k[1], k[2], v[k]) : k \in have})]
  /\ equity = {}
  /\ InitAtRest(Institutions)

\* The engine answers one query at a time: the response goes back to the
\* caller and nothing of it is kept.
Respond ==
  /\ reply # NoReply
  /\ reply' = NoReply
  /\ UNCHANGED << ingestion, app, cv >>

GetAttrition(i) ==
  /\ reply = NoReply
  /\ reply' = AttritionOf(facts, i)
  /\ UNCHANGED << ingestion, app, cv >>

NextAttrition ==
  \/ \E i \in Institutions : GetAttrition(i)
  \/ Respond

SpecAttrition == InitAttrition /\ [][NextAttrition]_vars

(***************************************************************************)
(* C12: within the institutions that have data in the same year, a higher  *)
(* attrition rate never gets a lower percentile: the percentile an         *)
(* attrition query returns is at least that of every institution of the    *)
(* year with a lower rate and at most that of every one with a higher      *)
(* rate; in particular the institution whose rate is strictly the highest  *)
(* has the highest percentile.                                             *)
(***************************************************************************)
C12_PercentileIsMonotone ==
  (reply.kind = "attrition" /\ reply.percentile # Null) =>
    LET rows == YearPool(facts, reply.latest_year[1])
        rate == reply.latest_rate[1]
        pct == reply.percentile[1]
    IN  /\ pct.den = Cardinality(rows)
        /\ \A r \in rows :
             /\ r.value < rate => FracLeq(Percentile(rows, r.value), pct)
             /\ r.value > rate => FracLeq(pct, Percentile(rows, r.value))
             /\ r.value = rate => Percentile(rows, r.value) = pct

\* Three institutions in the year, the one queried strictly above the others.
C12_Witness ==
  /\ reply.kind = "attrition"
  /\ reply.percentile # Null
  /\ Cardinality(YearPool(facts, reply.latest_year[1])) = 3
  /\ \A r \in YearPool(facts, reply.latest_year[1]) :
       r.institution_id # reply.institution_id => r.value < reply.latest_rate[1]
  /\ \E r \in YearPool(facts, reply.latest_year[1]) :
       FracLess(Percentile(YearPool(facts, reply.latest_year[1]), r.value),
                reply.percentile[1])

\* The percentiles from 0 to 100 in steps of a half.
PercentileGrid == {Frac(n, 2) : n \in 0..200}

\* The level the four ranges give to percentile p ({}: none, or more than one).
LevelByRange(p) ==
  {l \in {"Low", "Medium", "High", "Very High"} :
     \/ l = "Low" /\ FracLeq(Frac(0, 1), p) /\ FracLess(p, Frac(25, 1))
     \/ l = "Medium" /\ FracLeq(Frac(25, 1), p) /\ FracLess(p, Frac(50, 1))
     \/ l = "High" /\ FracLeq(Frac(50, 1), p) /\ FracLess(p, Frac(75, 1))
     \/ l = "Very High" /\ FracLeq(Frac(75, 1), p) /\ FracLeq(p, Frac(100, 1))}

MaxYears == 6

\* The trend is fitted to the most recent 5 data points.
TrendPoints == 5

\* The n most recent years of attrition data.
TrendYears(n) == {2023 - k : k \in 0..(n - 1)}

\* Rates in tenths of a point: a slow rise (0, 1, 2, 3, 4), a jump (16).
TrendRates == {0, 1, 2, 3, 4, 16}

OlderRates == {0, 16}

\* The institution the histories belong to: the first of the store.
Subject == CHOOSE i \in Institutions : \A j \in Institutions : i <= j

HistoryOf(db, i) == {r \in DomesticAttrition(db) : r.institution_id = i}

\* The k rows of the most recent years.
MostRecent(rows, k) ==
  {r \in rows : Cardinality({q \in rows : q.dims > r.dims}) < k}

\* slope = sum((year - mean_year)(rate - mean_rate)) / sum((year - mean_year)^2),
\* numerator and denominator both multiplied by the square of the number of
\* points; in tenths of a point per year.
OlsSlope(pts) ==
  LET n  == Cardinality(pts)
      sx == SumOf({[row |-> r, value |-> r.dims] : r \in pts})
      sy == SumOf({[row |-> r, value |-> r.value] : r \in pts})
  IN  Frac(SumOf({[row |-> r,
                   value |-> (n * r.dims - sx) * (n * r.value - sy)] :
                    r \in pts}),
           SumOf({[row |-> r,
                   value |-> (n * r.dims - sx) * (n * r.dims - sx)] :
                    r \in pts}))

\* Fault: any rise is worsening and any fall is improving.
DirectionBySign(slope) ==
  IF FracLess(slope, Frac(0, 1)) THEN "improving"
  ELSE IF FracLess(Frac(0, 1), slope) THEN "worsening"
  ELSE "stable"

\* Fault: the end values of the stable range count as a change.
DirectionOpenRange(slope) ==
  IF FracLeq(slope, Frac(-3, 1)) THEN "improving"
  ELSE IF FracLeq(Frac(3, 1), slope) THEN "worsening"
  ELSE "stable"

\* Slope < -0.3 pp/yr improving, -0.3 to +0.3 stable, slope > +0.3 worsening.
Direction(slope) ==
  IF FracLess(slope, Frac(-3, 1)) THEN "improving"
  ELSE IF FracLess(Frac(3, 1), slope) THEN "worsening"
  ELSE "stable"

\* The points the trend is fitted to.
Fitted(rows) == MostRecent(rows, TrendPoints)

\* The rows of a set as a sequence by ascending year.
RECURSIVE ByYear(_)
ByYear(rows) ==
  IF rows = {}
  THEN << >>
  ELSE LET x == CHOOSE e \in rows : \A q \in rows : e.dims <= q.dims
       IN  << x >> \o ByYear(rows \ {x})

\* The trend part of the report for institution i; the slope is a number in
\* every response.
TrendOf(db, i) ==
  LET series == ByYear(HistoryOf(db, i))
      pts == Fitted(HistoryOf(db, i))
  IN  [kind |-> "trend", institution_id |-> i,
       years |-> [k \in 1..Len(series) |-> series[k].dims],
       attrition_rates |-> [k \in 1..Len(series) |-> series[k].value],
       direction |->
         IF Cardinality(pts) < 2 THEN "unknown" ELSE Direction(OlsSlope(pts)),
       slope |->
         IF Cardinality(pts) < 2 THEN Frac(0, 1) ELSE OlsSlope(pts)]

\* Any history of one institution: a rate for each of its most recent
\* years, none to MaxYears of them; the years before the most recent
\* TrendPoints take the lowest or the highest rate.
InitTrend ==
  /\ \E n \in 0..MaxYears :
       \E v \in [TrendYears(n) \cap TrendYears(TrendPoints) -> TrendRates] :
         \E o \in [TrendYears(n) \ TrendYears(TrendPoints) -> OlderRates] :
           facts = [EmptyFacts EXCEPT !["attrition_retention"] =
                      SeqOf({AttritionRow(Subject, y, v[y]) : y \in DOMAIN v}
                            \cup {AttritionRow(Subject, y, o[y]) : y \in DOMAIN o})]
  /\ equity = {}
  /\ InitAtRest(Institutions)

GetTrend(i) ==
  /\ reply = NoReply
  /\ reply' = TrendOf(facts, i)
  /\ UNCHANGED << ingestion, app, cv >>

NextTrend ==
  \/ \E i \in Institutions : GetTrend(i)
  \/ Respond

SpecTrend == InitTrend /\ [][NextTrend]_vars

\* The rates the trend of the last response was fitted to, oldest first.
FittedRates ==
  LET q == ByYear(MostRecent(HistoryOf(facts, reply.institution_id), TrendPoints))
  IN  [k \in 1..Len(q) |-> q[k].value]

Increasing(q) == \A k \in 1..(Len(q) - 1) : q[k] < q[k + 1]

Decreasing(q) == \A k \in 1..(Len(q) - 1) : q[k] > q[k + 1]

Flat(q) == \A k \in 1..(Len(q) - 1) : q[k] = q[k + 1]

(***************************************************************************)
(* C14 as stated: every strictly increasing 5-point series has a slope     *)
(* above 0.3 and is worsening, every strictly decreasing one is improving, *)
(* every flat one is stable.                                               *)
(***************************************************************************)
C14_TrendSignAsStated ==
  (reply.kind = "trend" /\ Len(FittedRates) = TrendPoints) =>
    /\ Increasing(FittedRates) =>
         /\ reply.slope.num > 3 * reply.slope.den
         /\ reply.direction = "worsening"
    /\ Decreasing(FittedRates) => reply.direction = "improving"
    /\ Flat(FittedRates) => reply.direction = "stable"

(***************************************************************************)
(* C14 amended: a strictly increasing 5-point series has a slope above 0   *)
(* and is worsening when the slope is above 0.3 and stable otherwise; a    *)
(* strictly decreasing one has a slope below 0 and is improving when the   *)
(* slope is below -0.3 and stable otherwise; a flat one has slope 0 and is *)
(* stable.                                                                 *)
(***************************************************************************)
C14_TrendSignBySlope ==
  (reply.kind = "trend" /\ Len(FittedRates) = TrendPoints) =>
    /\ Increasing(FittedRates) =>
         /\ reply.slope.num > 0
         /\ reply.direction =
              IF reply.slope.num > 3 * reply.slope.den
              THEN "worsening" ELSE "stable"
    /\ Decreasing(FittedRates) =>
         /\ reply.slope.num < 0
         /\ reply.direction =
              IF reply.slope.num < (-3) * reply.slope.den
              THEN "improving" ELSE "stable"
    /\ Flat(FittedRates) =>
         /\ reply.slope.num = 0
         /\ reply.direction = "stable"

\* Five years rising by 0.1 a year: slope 0.1, stable.
C14_Witness ==
  /\ reply.kind = "trend"
  /\ FittedRates = << 0, 1, 2, 3, 4 >>
  /\ reply.direction = "stable"
  /\ reply.slope.num > 0

(***************************************************************************)
(* C15: the trend is fitted to the rates of the 5 most recent years, or to *)
(* all of them when there are fewer; with fewer than 2 points the          *)
(* direction is unknown; otherwise a slope below -0.3 is improving, a      *)
(* slope above +0.3 is worsening, and every slope from -0.3 to +0.3, both  *)
(* end values included, is stable.                                         *)
(***************************************************************************)
C15_TrendDirection ==
  reply.kind = "trend" =>
    LET hist == HistoryOf(facts, reply.institution_id)
        pts == MostRecent(hist, TrendPoints)
    IN  /\ Cardinality(pts) <= TrendPoints
        /\ \A r \in pts : \A q \in hist \ pts : q.dims < r.dims
        /\ Cardinality(hist) < 2 => reply.direction = "unknown"
        /\ Cardinality(hist) >= 2 =>
             /\ reply.slope.den > 0
             /\ reply.slope.num * OlsSlope(pts).den
                  = OlsSlope(pts).num * reply.slope.den
             /\ reply.slope.num < (-3) * reply.slope.den
                  => reply.direction = "improving"
             /\ reply.slope.num > 3 * reply.slope.den
                  => reply.direction = "worsening"
             /\ ((-3) * reply.slope.den <= reply.slope.num
                   /\ reply.slope.num <= 3 * reply.slope.den)
                  => reply.direction = "stable"

\* Six years of history, the oldest left out of the fit, and a slope of
\* exactly +0.3 that is stable.
C15_Witness ==
  /\ reply.kind = "trend"
  /\ Cardinality(HistoryOf(facts, reply.institution_id)) = 6
  /\ Len(FittedRates) = TrendPoints
  /\ reply.slope.num = 3 * reply.slope.den
  /\ reply.direction = "stable"

(***************************************************************************)
(* Field graduation ratio and field ranking                                *)
(***************************************************************************)
\* Most institutions that offer the field under analysis.
MaxOffering == 6

Offering == 1..MaxOffering

\* Institutions with fewer than 50 enrolled students in the field are excluded.
MinEnrolment == 50

\* The ranking lists the 5 highest and the 5 lowest graduation ratios.
ListLength == 5

\* What an institution can have in the field: enrolled students and
\* graduates of the year.
Offers ==
  {[enrolled |-> 49, graduates |-> 20], [enrolled |-> 50, graduates |-> 10],
   [enrolled |-> 50, graduates |-> 20]}

\* The field the stores hold data for, and the fields a query can name.
StoredField == CHOOSE f \in FieldIds : \A g \in FieldIds : f <= g

QueryFields == {StoredField, StoredField + 1}

EnrolmentRow(i, y, f, n) ==
  [table |-> "enrolments", institution_id |-> i, dims |-> y, value |-> n,
   field_id |-> f, source_file |-> "section2"]

CompletionRow(i, y, f, n) ==
  [table |-> "completions", institution_id |-> i, dims |-> y, value |-> n,
   field_id |-> f, source_file |-> "section14"]

RECURSIVE Gcd(_, _)
Gcd(a, b) == IF b = 0 THEN a ELSE Gcd(b, a % b)

\* A rational number in lowest terms.
Reduce(x) ==
  IF x.num = 0
  THEN Frac(0, 1)
  ELSE Frac(x.num \div Gcd(x.num, x.den), x.den \div Gcd(x.num, x.den))

FracAdd(a, b) == Reduce(Frac(a.num * b.den + b.num * a.den, a.den * b.den))

\* SUM(headcount) over the rows of table t for institution i, field f, year y.
Headcount(db, t, i, f, y) ==
  SumOf({[row |-> k, value |-> db[t][k].value] :
           k \in {j \in 1..Len(db[t]) :
                    /\ db[t][j].institution_id = i
                    /\ db[t][j].field_id = f
                    /\ db[t][j].dims = y}})

\* The most recent year with enrolments in field f (0: none).
FieldYear(db, f) ==
  MaxId({r.dims : r \in {x \in Range(db["enrolments"]) : x.field_id = f}})

\* The institutions that offer field f in year y, each with its headcounts.
FieldOffers(db, f, y) ==
  {[id |-> i,
    enrolled |-> Headcount(db, "enrolments", i, f, y),
    graduates |-> Headcount(db, "completions", i, f, y)] :
     i \in {r.institution_id :
              r \in {x \in Range(db["enrolments"]) :
                       x.field_id = f /\ x.dims = y}}}

\* Fault: the floor itself is excluded.
EligibleAboveFloor(e) == e.enrolled > MinEnrolment

\* The 50-student floor of the ranking.
Eligible(e) == e.enrolled >= MinEnrolment

\* graduation ratio = completions in field / total enrolled in field x 100
GraduationRatio(e) == Reduce(Frac(e.graduates * 100, e.enrolled))

\* a comes before b in the ranking: the higher ratio, and of two equal
\* ratios the institution created first.
Before(a, b) ==
  \/ FracLess(GraduationRatio(b), GraduationRatio(a))
  \/ GraduationRatio(a) = GraduationRatio(b) /\ a.id < b.id

\* The eligible institutions sorted by graduation ratio descending.
RECURSIVE Sorted(_)
Sorted(S) ==
  IF S = {}
  THEN << >>
  ELSE LET x == CHOOSE e \in S : \A o \in S \ {e} : Before(e, o)
       IN  << x >> \o Sorted(S \ {x})

\* RankingEntry: the k-th of the sorted list.
RankingEntry(q, k) ==
  [id |-> q[k].id, enrolled |-> q[k].enrolled, graduates |-> q[k].graduates,
   ratio |-> GraduationRatio(q[k]), rank |-> k]

Min(a, b) == IF a < b THEN a ELSE b

RECURSIVE SumRatios(_, _)
SumRatios(q, n) ==
  IF n = 0
  THEN Frac(0, 1)
  ELSE FracAdd(SumRatios(q, n - 1), GraduationRatio(q[n]))

\* The simple mean of the ratios of the list.
MeanRatio(q) ==
  Reduce(Frac(SumRatios(q, Len(q)).num, SumRatios(q, Len(q)).den * Len(q)))

\* top_5: the first entries of the ranking.
Top(q) == [k \in 1..Min(ListLength, Len(q)) |-> RankingEntry(q, k)]

\* Fault: the lowest list is cut from the front of the ranking.
BottomFromFront(q) ==
  [k \in 1..Min(ListLength, Len(q)) |-> RankingEntry(q, k)]

\* bottom_5: the last entries of the ranking.
Bottom(q) ==
  [k \in 1..Min(ListLength, Len(q)) |->
     RankingEntry(q, Len(q) - Min(ListLength, Len(q)) + k)]

\* The field ranking for institution i in field f: FieldContext.ranking,
\* null when there is not enough data; dividing by a count of zero raises.
RankingOf(db, i, f) ==
  LET q == Sorted({e \in FieldOffers(db, f, FieldYear(db, f)) : Eligible(e)})
      at == {k \in 1..Len(q) : q[k].id = i}
  IN  IF ~Sufficient(Range(q))
      THEN [kind |-> "ranking", institution_id |-> i, field_id |-> f,
            ranking |-> Null]
      ELSE IF Len(q) = 0
      THEN [kind |-> "error", institution_id |-> i, field_id |-> f,
            error |-> "ZeroDivisionError"]
      ELSE [kind |-> "ranking", institution_id |-> i, field_id |-> f,
            ranking |->
              Some([this_institution |->
                      [rank |-> IF at = {} THEN Null
                                ELSE Some(CHOOSE k \in at : TRUE),
                       of |-> Len(q),
                       ratio |-> IF at = {} THEN Null
                                 ELSE Some(GraduationRatio(q[CHOOSE k \in at : TRUE]))],
                    top_5 |-> Top(q),
                    bottom_5 |-> Bottom(q),
                    national_avg_ratio |-> MeanRatio(q)])]

\* Any store of one field's enrolments and completions in the latest year:
\* none to MaxOffering institutions offer the field.
InitRanking ==
  /\ \E n \in 0..MaxOffering :
       \E o \in [1..n -> Offers] :
         facts = [EmptyFacts EXCEPT
                    !["enrolments"] =
                      SeqOf({EnrolmentRow(i, 2024, StoredField, o[i].enrolled) :
                               i \in DOMAIN o}),
                    !["completions"] =
                      SeqOf({CompletionRow(i, 2024, StoredField, o[i].graduates) :
                               i \in DOMAIN o})]
  /\ equity = {}
  /\ InitAtRest(Offering)

GetRanking(i, f) ==
  /\ reply = NoReply
  /\ reply' = RankingOf(facts, i, f)
  /\ UNCHANGED << ingestion, app, cv >>

NextRanking ==
  \/ \E i \in Offering, f \in QueryFields : GetRanking(i, f)
  \/ Respond

SpecRanking == InitRanking /\ [][NextRanking]_vars

\* The institutions of the field and year of the last ranking response that
\* have at least 50 enrolled students.
AtLeastFifty ==
  {e \in FieldOffers(facts, reply.field_id, FieldYear(facts, reply.field_id)) :
     e.enrolled >= 50}

EntryIds(q) == {q[k].id : k \in 1..Len(q)}

(***************************************************************************)
(* C16: an institution takes part in a field's ranking exactly when its    *)
(* enrolment in the field for the year is at least 50: the count of ranked *)
(* institutions, the top 5, the bottom 5 and the national average are      *)
(* those of the institutions with 50 or more, the subject has a rank       *)
(* exactly when it is one of them; 49 is out, 50 is in.                    *)
(***************************************************************************)
C16_RankingFloor ==
  reply.kind = "ranking" =>
    /\ reply.ranking = Null => Cardinality(AtLeastFifty) < 2
    /\ reply.ranking # Null =>
         LET r == reply.ranking[1]
         IN  /\ r.this_institution.of = Cardinality(AtLeastFifty)
             /\ r.this_institution.rank # Null <=>
                  reply.institution_id \in {e.id : e \in AtLeastFifty}
             /\ EntryIds(r.top_5) \cup EntryIds(r.bottom_5)
                  \subseteq {e.id : e \in AtLeastFifty}
             /\ Cardinality(AtLeastFifty) <= 2 * ListLength =>
                  EntryIds(r.top_5) \cup EntryIds(r.bottom_5)
                    = {e.id : e \in AtLeastFifty}
             /\ \A k \in 1..Len(r.top_5) : r.top_5[k].enrolled >= 50
             /\ r.national_avg_ratio = MeanRatio(SeqOf(AtLeastFifty))

\* The subject has exactly 50 enrolled and a rank; another institution has
\* 49 enrolled, the best ratio of the field, and is in neither list.
C16_Witness ==
  /\ reply.kind = "ranking"
  /\ reply.ranking # Null
  /\ reply.ranking[1].this_institution.rank # Null
  /\ \E e \in FieldOffers(facts, reply.field_id, FieldYear(facts, reply.field_id)) :
       /\ e.id = reply.institution_id
       /\ e.enrolled = 50
  /\ \E e \in FieldOffers(facts, reply.field_id, FieldYear(facts, reply.field_id)) :
       /\ e.enrolled = 49
       /\ e.id \notin EntryIds(reply.ranking[1].top_5)
       /\ e.id \notin EntryIds(reply.ranking[1].bottom_5)
       /\ \A k \in 1..Len(reply.ranking[1].top_5) :
            FracLess(reply.ranking[1].top_5[k].ratio, GraduationRatio(e))

\* The eligible institutions of the last ranking response, best ratio first.
Ranked ==
  Sorted({e \in FieldOffers(facts, reply.field_id,
                            FieldYear(facts, reply.field_id)) : Eligible(e)})

(***************************************************************************)
(* C17: the N eligible institutions are sorted by graduation ratio         *)
(* descending; the subject's rank is its 1-based position in that order,   *)
(* between 1 and N, and null when it is not eligible; top_5 is the first   *)
(* min(5, N) entries, bottom_5 the last min(5, N) entries, each entry with *)
(* its position as rank; the national average is the arithmetic mean of    *)
(* the N ratios.                                                           *)
(***************************************************************************)
C17_RankingShape ==
  (reply.kind = "ranking" /\ reply.ranking # Null) =>
    LET r == reply.ranking[1]
        n == Len(Ranked)
        m == IF n < 5 THEN n ELSE 5
    IN  /\ \A k \in 1..(n - 1) :
             FracLeq(GraduationRatio(Ranked[k + 1]), GraduationRatio(Ranked[k]))
        /\ r.this_institution.of = n
        /\ \A k \in 1..n :
             Ranked[k].id = reply.institution_id =>
               /\ r.this_institution.rank = Some(k)
               /\ r.this_institution.ratio = Some(GraduationRatio(Ranked[k]))
        /\ reply.institution_id \notin EntryIds(Ranked) =>
             r.this_institution.rank = Null
        /\ r.this_institution.rank # Null =>
             r.this_institution.rank[1] \in 1..n
        /\ Len(r.top_5) = m
        /\ Len(r.bottom_5) = m
        /\ \A k \in 1..m :
             /\ r.top_5[k].id = Ranked[k].id
             /\ r.top_5[k].rank = k
             /\ r.top_5[k].ratio = GraduationRatio(Ranked[k])
             /\ r.bottom_5[k].id = Ranked[n - m + k].id
             /\ r.bottom_5[k].rank = n - m + k
             /\ r.bottom_5[k].ratio = GraduationRatio(Ranked[n - m + k])
        /\ r.national_avg_ratio
             = Reduce(Frac(SumRatios(Ranked, n).num, SumRatios(Ranked, n).den * n))

\* Six eligible institutions, the subject last: the two lists differ.
C17_Witness ==
  /\ reply.kind = "ranking"
  /\ reply.ranking # Null
  /\ reply.ranking[1].this_institution.of = 6
  /\ reply.ranking[1].this_institution.rank = Some(6)
  /\ Len(reply.ranking[1].top_5) = 5
  /\ reply.ranking[1].bottom_5[5].id = reply.institution_id
  /\ reply.institution_id \notin EntryIds(reply.ranking[1].top_5)
  /\ FracLess(reply.ranking[1].bottom_5[5].ratio, reply.ranking[1].top_5[1].ratio)

(***************************************************************************)
(* Composite field risk (heatmap)                                          *)
(***************************************************************************)
\* What an institution can have in a store under the heatmap: its latest
\* attrition rate in tenths of a point and, when it offers the field, the
\* field's enrolled students and graduates.
HeatCases ==
  {[rate |-> 200, offers |-> TRUE, enrolled |-> 100, graduates |-> 30],
   [rate |-> 180, offers |-> TRUE, enrolled |-> 100, graduates |-> 0],
   [rate |-> 200, offers |-> TRUE, enrolled |-> 100, graduates |-> 50],
   [rate |-> 200, offers |-> TRUE, enrolled |-> 100, graduates |-> 51],
   [rate |-> 200, offers |-> TRUE, enrolled |-> 100, graduates |-> 120],
   [rate |-> 200, offers |-> FALSE, enrolled |-> 0, graduates |-> 0]}

\* composite risk = attrition_rate x (1 - graduation_ratio / 100), in tenths
\* of a point like the rate.
CompositeRisk(rate, ratio) ==
  Reduce(Frac(rate * (100 * ratio.den - ratio.num), 100 * ratio.den))

\* Fault: a score of exactly 18 is still medium.
RiskTierEighteenMedium(score) ==
  IF FracLess(score, Frac(100, 1)) THEN "low"
  ELSE IF FracLeq(score, Frac(180, 1)) THEN "medium"
  ELSE "high"

\* Composite risk < 10 low, 10 - 18 medium, >= 18 high.
RiskTier(score) ==
  IF FracLess(score, Frac(100, 1)) THEN "low"
  ELSE IF FracLess(score, Frac(180, 1)) THEN "medium"
  ELSE "high"

\* RiskBar: the colour of the score's mini-bar.
RiskBarColor(score) ==
  IF FracLess(score, Frac(100, 1)) THEN "bg-emerald-500"
  ELSE IF FracLess(score, Frac(180, 1)) THEN "bg-amber-500"
  ELSE "bg-red-500"

\* tierText: the colour family of a tier.
TierColor(tier) ==
  CASE tier = "low" -> "emerald"
    [] tier = "medium" -> "amber"
    [] tier = "high" -> "red"

\* The numbers of a set in ascending order.
RECURSIVE Ascending(_)
Ascending(S) ==
  IF S = {}
  THEN << >>
  ELSE LET x == CHOOSE e \in S : \A o \in S : e <= o
       IN  << x >> \o Ascending(S \ {x})

\* HeatmapEntry of institution i for field f; without field data the ratio is
\* null and the score is the attrition rate.
HeatmapEntry(db, i, f) ==
  LET rate == RateOf(db, i, LatestYear(db, i))
      mine == {e \in FieldOffers(db, f, FieldYear(db, f)) : e.id = i /\ e.enrolled > 0}
      ratio == GraduationRatio(CHOOSE e \in mine : TRUE)
  IN  [institution_id |-> i,
       attrition_rate |-> rate,
       grad_ratio |-> IF mine = {} THEN Null ELSE Some(ratio),
       composite_risk |->
         IF mine = {} THEN Frac(rate, 1) ELSE CompositeRisk(rate, ratio),
       risk_tier |->
         IF mine = {} THEN RiskTier(Frac(rate, 1))
         ELSE RiskTier(CompositeRisk(rate, ratio))]

\* The heatmap of field f: an entry for every institution with an attrition
\* rate, by institution id.
HeatmapOf(db, f) ==
  LET ids == Ascending({r.institution_id : r \in DomesticAttrition(db)})
  IN  [kind |-> "heatmap", field_id |-> f,
       entries |-> [k \in 1..Len(ids) |-> HeatmapEntry(db, ids[k], f)]]

\* Any store of none to MaxInstitutions institutions, each with one of the
\* cases.
InitHeatmap ==
  /\ \E n \in 0..MaxInstitutions :
       \E c \in [1..n -> HeatCases] :
         facts = [EmptyFacts EXCEPT
                    !["attrition_retention"] =
                      SeqOf({AttritionRow(i, 2023, c[i].rate) : i \in DOMAIN c}),
                    !["enrolments"] =
                      SeqOf({EnrolmentRow(i, 2024, StoredField, c[i].enrolled) :
                               i \in {j \in DOMAIN c : c[j].offers}}),
                    !["completions"] =
                      SeqOf({CompletionRow(i, 2024, StoredField, c[i].graduates) :
                               i \in {j \in DOMAIN c : c[j].offers}})]
  /\ equity = {}
  /\ InitAtRest(Institutions)

GetHeatmap(f) ==
  /\ reply = NoReply
  /\ reply' = HeatmapOf(facts, f)
  /\ UNCHANGED << ingestion, app, cv >>

NextHeatmap ==
  \/ \E f \in QueryFields : GetHeatmap(f)
  \/ Respond

SpecHeatmap == InitHeatmap /\ [][NextHeatmap]_vars

EquityGroups ==
  {"low_ses", "regional", "first_nations", "disability", "nesb", "remote"}

\* Retention rates of a group at the institution and the national average of
\* the group, in tenths of a percentage point.
EquityRates == {790, 800, 810}

EquityAverages == {800}

EquityRow(i, g, rate, avg) ==
  [institution_id |-> i, group |-> g, measure |-> "retention",
   rate |-> rate, national_avg |-> avg]

\* One measure of one group: rate, national average and their difference, all
\* null when the institution has no row for the group.
EquityGroupMetric(rows, i, g) ==
  LET mine == {r \in rows : r.institution_id = i /\ r.group = g}
  IN  IF mine = {}
        THEN [rate |-> Null, national_avg |-> Null, gap |-> Null]
        ELSE LET r == CHOOSE x \in mine : TRUE
             IN  [rate |-> Some(r.rate), national_avg |-> Some(r.national_avg),
                  gap |-> Some(r.rate - r.national_avg)]

AboveAverageStrict(gap) == gap > 0

AboveAverage(gap) == gap >= 0

SupportLabel(above, total) ==
  IF above * 100 >= 70 * total THEN "Strong"
  ELSE IF above * 100 >= 40 * total THEN "Mixed"
  ELSE "Weak"

EquitySummary(groups) ==
  LET known == {g \in EquityGroups : groups[g].retention.gap # Null}
      above == {g \in known : AboveAverage(groups[g].retention.gap[1])}
  IN  [groups_above_avg |-> Cardinality(above),
       groups_total     |-> Cardinality(known),
       overall_label    |-> SupportLabel(Cardinality(above),
                                         Cardinality(known))]

EquityOf(rows, i) ==
  LET groups == [g \in EquityGroups |->
                   [retention |-> EquityGroupMetric(rows, i, g)]]
  IN  [kind |-> "equity", institution_id |-> i, groups |-> groups,
       support_summary |-> EquitySummary(groups)]

\* A store at rest with retention rows of the subject institution for some of
\* the equity groups, at least one.
InitEquity ==
  /\ \E have \in SUBSET EquityGroups \ {{}} :
       \E rate \in [have -> EquityRates] : \E avg \in EquityAverages :
         equity = {EquityRow(Subject, g, rate[g], avg) : g \in have}
  /\ facts = EmptyFacts
  /\ InitAtRest(Institutions)

GetEquity(i) ==
  /\ reply = NoReply
  /\ reply' = EquityOf(equity, i)
  /\ UNCHANGED << ingestion, app, cv >>

NextEquity ==
  \/ \E i \in {r.institution_id : r \in equity} : GetEquity(i)
  \/ Respond

SpecEquity == InitEquity /\ [][NextEquity]_vars

\* The groups of the store whose retention rate at the institution is not
\* below the national average, and the groups the institution has a rate for.
NotBelowAverage(i) ==
  {r.group : r \in {x \in equity : x.institution_id = i
                                     /\ x.rate >= x.national_avg}}

WithRate(i) == {r.group : r \in {x \in equity : x.institution_id = i}}

InitQueries == InitAttrition \/ InitRanking

NextQueries ==
  \/ \E i \in Institutions : GetAttrition(i)
  \/ \E i \in Offering, f \in QueryFields : GetRanking(i, f)
  \/ Respond

SpecQueries == InitQueries /\ [][NextQueries]_vars

\* The institutions with an attrition rate in the year of the last attrition
\* response (none when the response has no year).
WithAttrition ==
  IF reply.latest_year = Null THEN {}
  ELSE {r.institution_id :
          r \in {x \in DomesticAttrition(facts) : x.dims = reply.latest_year[1]}}

C21_UnavailableIsNull ==
  /\ reply.kind = "attrition" =>
       (reply.latest_year = Null =>
          /\ reply.latest_rate = Null
          /\ reply.national_avg = Null
          /\ reply.percentile = Null)
  /\ reply.kind = "trend" =>
       (Len(reply.years) < 2 => reply.slope = Null)
  /\ reply.kind = "heatmap" =>
       \A k \in 1..Len(reply.entries) :
         {e \in FieldOffers(facts, reply.field_id,
                            FieldYear(facts, reply.field_id)) :
            e.id = reply.entries[k].institution_id} = {}
           => /\ reply.entries[k].grad_ratio = Null
              /\ reply.entries[k].composite_risk = Null
  /\ reply.kind = "equity" =>
       \A g \in EquityGroups \ WithRate(reply.institution_id) :
         /\ reply.groups[g].retention.rate = Null
         /\ reply.groups[g].retention.national_avg = Null
         /\ reply.groups[g].retention.gap = Null

(***************************************************************************)
(* C30: the composite risk of every heatmap entry is at least 0 and at     *)
(* most the entry's attrition rate, for every graduation ratio, those      *)
(* above 100 included.                                                     *)
(***************************************************************************)
C30_CompositeRiskInRange ==
  reply.kind = "heatmap" =>
    \A k \in 1..Len(reply.entries) :
      /\ FracLeq(Frac(0, 1), reply.entries[k].composite_risk)
      /\ FracLeq(reply.entries[k].composite_risk,
                 Frac(reply.entries[k].attrition_rate, 1))

(***************************************************************************)
(* The App component: selections, modes and the three fetch effects        *)
(***************************************************************************)
\* At most this many requests are in flight at a time.
MaxInFlight == 1

\* The institutions and fields the mount effect has loaded, and the states
\* of the map.
AppInstitutions ==
  {[id |-> 1, name |-> "Uni A", state |-> "NSW"],
   [id |-> 2, name |-> "Uni B", state |-> "Multi-State"]}

AppStates == {"NSW", "VIC"}

AppFields == {1, 11}

AppModes == {"report", "heatmap", "equity", "methodology", "about"}

EXCLUDED_HEATMAP_FIELDS == {11, 12, 13}

heatmapFields == {f \in AppFields : f \notin EXCLUDED_HEATMAP_FIELDS}

filteredInstitutions(selectedState) ==
  IF selectedState = Null
  THEN AppInstitutions
  ELSE {i \in AppInstitutions :
          i.state = selectedState[1] \/ i.state = "Multi-State"}

\* useState: the component's state at mount, no request in flight.  The
\* messages heatmapError and equityError are only displayed, no handler or
\* effect reads them: they are not part of the state here.
InitialApp ==
  [mode |-> "report", selectedInst |-> Null, selectedField |-> Null,
   selectedState |-> Null,
   report |-> Null, loading |-> FALSE, error |-> Null,
   heatmapData |-> Null, heatmapLoading |-> FALSE,
   equityData |-> Null, equityLoading |-> FALSE,
   requests |-> {}]

\* What the server answers: the report of an institution and field, the
\* equity report of an institution, the heatmap of a field.
ReportData(inst, field) == [institution_id |-> inst[1], field_id |-> field]

EquityReportData(inst) == [institution_id |-> inst[1]]

HeatmapEntries ==
  << [institution_id |-> 1, institution_name |-> "Uni A", state |-> "NSW",
      composite_risk |-> 120],
     [institution_id |-> 2, institution_name |-> "Uni B",
      state |-> "Multi-State", composite_risk |-> 200] >>

\* The first entry of q with the lowest score, and with the highest.
Best(q) ==
  q[CHOOSE k \in 1..Len(q) :
      /\ \A j \in 1..Len(q) : q[k].composite_risk <= q[j].composite_risk
      /\ \A j \in 1..(k - 1) : q[j].composite_risk > q[k].composite_risk]

Worst(q) ==
  q[CHOOSE k \in 1..Len(q) :
      /\ \A j \in 1..Len(q) : q[k].composite_risk >= q[j].composite_risk
      /\ \A j \in 1..(k - 1) : q[j].composite_risk < q[k].composite_risk]

\* toFixed(1) of total / n, scores being in tenths: the nearest tenth.
AvgRisk(q) ==
  LET total == SumOf({[row |-> k, value |-> q[k].composite_risk] :
                        k \in 1..Len(q)})
  IN  (2 * total + Len(q)) \div (2 * Len(q))

\* The summary numbers of a non-empty list of entries.
SummaryOf(q) ==
  [num_institutions |-> Len(q),
   avg_risk |-> AvgRisk(q),
   min_risk |-> Best(q).composite_risk,
   max_risk |-> Worst(q).composite_risk,
   best_institution_name |-> Best(q).institution_name,
   worst_institution_name |-> Worst(q).institution_name]

HeatmapData(field) ==
  [field_id |-> field[1], entries |-> HeatmapEntries,
   summary |-> SummaryOf(HeatmapEntries)]

\* Fault: the rows are not filtered by state.
AllEntries(data, stateFilter) == data.entries

\* HeatmapView: the entries of the selected state, all of them without a
\* state filter.
FilteredEntries(data, stateFilter) ==
  IF stateFilter # Null
  THEN SelectSeq(data.entries, LAMBDA e : e.state = stateFilter[1])
  ELSE data.entries

\* HeatmapView: the summary shown above the rows.
DisplaySummary(data, stateFilter) ==
  IF stateFilter # Null /\ Len(FilteredEntries(data, stateFilter)) > 0
  THEN SummaryOf(FilteredEntries(data, stateFilter))
  ELSE data.summary

\* What the page renders: the map of the landing page, and each view's data.
MapShown(a) ==
  /\ a.mode = "report"
  /\ ~a.loading
  /\ a.error = Null
  /\ a.report = Null
  /\ a.selectedInst = Null

ReportShown(a) == a.mode = "report" /\ ~a.loading /\ a.report # Null

HeatmapShown(a) ==
  a.mode = "heatmap" /\ ~a.heatmapLoading /\ a.heatmapData # Null

EquityShown(a) == a.mode = "equity" /\ ~a.equityLoading /\ a.equityData # Null

Request(kind, inst, field) ==
  [kind |-> kind, inst |-> inst, field |-> field, phase |-> "fetch"]

\* The report effect, on a change of selectedInst or selectedField.
ReportEffect(a) ==
  IF a.selectedInst = Null
  THEN [a EXCEPT !.report = Null]
  ELSE [a EXCEPT !.loading = TRUE, !.error = Null,
                 !.requests = @ \cup {Request("report", a.selectedInst,
                                              a.selectedField)}]

\* The heatmap effect, on a change of mode or selectedField.
HeatmapEffect(a) ==
  IF a.mode # "heatmap" \/ a.selectedField = Null
  THEN [a EXCEPT !.heatmapData = Null]
  ELSE [a EXCEPT !.heatmapLoading = TRUE,
                 !.requests = @ \cup {Request("heatmap", Null,
                                              a.selectedField)}]

\* The equity effect, on a change of mode or selectedInst.
EquityEffect(a) ==
  IF a.mode # "equity" \/ a.selectedInst = Null
  THEN [a EXCEPT !.equityData = Null]
  ELSE [a EXCEPT !.equityLoading = TRUE,
                 !.requests = @ \cup {Request("equity", a.selectedInst, Null)}]

\* The effects whose dependencies differ between the render before a handler
\* and the render after it, in the order of their declaration.
RunEffects(old, new) ==
  LET a1 == IF << new.selectedInst, new.selectedField >>
                 # << old.selectedInst, old.selectedField >>
            THEN ReportEffect(new) ELSE new
      a2 == IF << new.mode, new.selectedField >>
                 # << old.mode, old.selectedField >>
            THEN HeatmapEffect(a1) ELSE a1
  IN  IF << new.mode, new.selectedInst >> # << old.mode, old.selectedInst >>
      THEN EquityEffect(a2) ELSE a2

\* One render: the handler's state, then the effects it triggers.
Update(new) ==
  /\ Cardinality(RunEffects(app, new).requests) <= MaxInFlight
  /\ app' = RunEffects(app, new)
  /\ UNCHANGED << ingestion, reply, cv >>

\* A request is done: its promise is fulfilled or rejected.
Settle(r, new) ==
  /\ app' = [new EXCEPT !.requests = app.requests \ {r}]
  /\ UNCHANGED << ingestion, reply, cv >>

\* The App is mounted with its institutions and fields loaded and nothing
\* selected, over a store at rest.
InitApp ==
  /\ app = InitialApp
  /\ cv = Null
  /\ facts = EmptyFacts
  /\ equity = {}
  /\ StoreAtRest({})

\* A mode button of the header, a feature card of the landing page, or the
\* disclaimer and footer links (both lead to the About page).
setMode(m) ==
  /\ m \in AppModes
  /\ Update([app EXCEPT !.mode = m])

\* InstitutionSelector: one of the institutions it lists, or none.
setSelectedInst(v) ==
  /\ app.mode \in {"report", "equity"}
  /\ v \in {Null} \cup {Some(i.id) : i \in filteredInstitutions(app.selectedState)}
  /\ Update([app EXCEPT !.selectedInst = v])

\* FieldSelector: one of the fields it lists, or "All fields".
setSelectedField(v) ==
  /\ app.mode \in {"report", "heatmap"}
  /\ v \in {Null} \cup
           {Some(f) : f \in IF app.mode = "heatmap" THEN heatmapFields
                            ELSE AppFields}
  /\ Update([app EXCEPT !.selectedField = v])

\* A click on the map (any state, or the selected one again to clear it), the
\* selector's clear-filter button or the heatmap's filter badge.
handleStateSelect(state) ==
  /\ \/ MapShown(app)
     \/ /\ state = Null
        /\ app.selectedState # Null
        /\ app.mode \in {"report", "equity", "heatmap"}
  /\ Update([app EXCEPT !.selectedState = state, !.selectedInst = Null,
                        !.selectedField = Null, !.report = Null,
                        !.equityData = Null])

\* The title button of the header.
HeaderReset ==
  Update([app EXCEPT !.mode = "report", !.selectedState = Null,
                     !.selectedInst = Null, !.selectedField = Null,
                     !.report = Null, !.equityData = Null,
                     !.heatmapData = Null, !.error = Null])

\* A click on row k of the heatmap.
handleHeatmapInstitutionSelect(k) ==
  /\ HeatmapShown(app)
  /\ k \in 1..Len(FilteredEntries(app.heatmapData[1], app.selectedState))
  /\ Update([app EXCEPT
       !.selectedInst =
         Some(FilteredEntries(app.heatmapData[1],
                              app.selectedState)[k].institution_id),
       !.selectedField = Some(app.heatmapData[1].field_id),
       !.mode = "report"])

\* fetchWithTimeout: the response's headers arrive with status ok before the
\* timer fires; the timer is cleared and the body is read next.
Headers(r) ==
  /\ r \in app.requests
  /\ r.phase = "fetch"
  /\ app' = [app EXCEPT !.requests =
               (@ \ {r}) \cup {[r EXCEPT !.phase = "json"]}]
  /\ UNCHANGED << ingestion, reply, cv >>

\* The catch handler of the request's effect.
Rejected(r) ==
  CASE r.kind = "report" ->
         [app EXCEPT !.error = Some("Failed to load report."),
                     !.loading = FALSE]
    [] r.kind = "heatmap" ->
         [app EXCEPT !.heatmapLoading = FALSE]
    [] r.kind = "equity" ->
         [app EXCEPT !.equityLoading = FALSE]

\* The then handler of the request's effect.
Fulfilled(r) ==
  CASE r.kind = "report" ->
         [app EXCEPT !.report = Some(ReportData(r.inst, r.field)),
                     !.loading = FALSE]
    [] r.kind = "heatmap" ->
         [app EXCEPT !.heatmapData = Some(HeatmapData(r.field)),
                     !.heatmapLoading = FALSE]
    [] r.kind = "equity" ->
         [app EXCEPT !.equityData = Some(EquityReportData(r.inst)),
                     !.equityLoading = FALSE]

\* The 30 second timer fires while fetch is pending: the request is aborted.
Timeout(r) ==
  /\ r \in app.requests
  /\ r.phase = "fetch"
  /\ Settle(r, Rejected(r))

\* fetch fails, the status is not ok, or the body cannot be read.
Fail(r) ==
  /\ r \in app.requests
  /\ Settle(r, Rejected(r))

\* res.json(): the body has arrived.
Body(r) ==
  /\ r \in app.requests
  /\ r.phase = "json"
  /\ Settle(r, Fulfilled(r))

NextApp ==
  \/ \E m \in AppModes : setMode(m)
  \/ \E v \in {Null} \cup {Some(i.id) : i \in AppInstitutions} :
       setSelectedInst(v)
  \/ \E v \in {Null} \cup {Some(f) : f \in AppFields} : setSelectedField(v)
  \/ \E state \in {Null} \cup {Some(x) : x \in AppStates} :
       handleStateSelect(state)
  \/ HeaderReset
  \/ \E k \in 1..Len(HeatmapEntries) : handleHeatmapInstitutionSelect(k)
  \/ \E r \in app.requests : Headers(r)
  \/ \E r \in app.requests : Timeout(r)
  \/ \E r \in app.requests : Fail(r)
  \/ \E r \in app.requests : Body(r)

SpecApp == InitApp /\ [][NextApp]_vars

\* The timer of a pending fetch fires: setTimeout is not starved.  Nothing
\* makes the server answer or the body arrive.
FairSpecApp ==
  SpecApp /\ WF_vars(\E r \in app.requests : Timeout(r))

(***************************************************************************)
(* C22: while the app is in heatmap mode, no heatmap request is under way  *)
(* and no heatmap is held for field 11, 12 or 13.                          *)
(***************************************************************************)
C22_ExcludedFieldsNotInHeatmap ==
  app.mode = "heatmap" =>
    /\ \A r \in app.requests :
         r.kind = "heatmap" => r.field[1] \notin EXCLUDED_HEATMAP_FIELDS
    /\ app.heatmapData # Null =>
         app.heatmapData[1].field_id \notin EXCLUDED_HEATMAP_FIELDS

(***************************************************************************)
(* C23: whenever a view's loading flag is false and its data is not null,  *)
(* the data is the response to the request for the current selection: the  *)
(* report of the selected institution and field, the heatmap of the        *)
(* selected field, the equity report of the selected institution; with     *)
(* nothing selected there is no data.                                      *)
(***************************************************************************)
C23_DataIsOfCurrentSelection ==
  /\ (~app.loading /\ app.report # Null) =>
       /\ app.selectedInst # Null
       /\ app.report = Some(ReportData(app.selectedInst, app.selectedField))
  /\ (~app.heatmapLoading /\ app.heatmapData # Null) =>
       /\ app.selectedField # Null
       /\ app.heatmapData = Some(HeatmapData(app.selectedField))
  /\ (~app.equityLoading /\ app.equityData # Null) =>
       /\ app.selectedInst # Null
       /\ app.equityData = Some(EquityReportData(app.selectedInst))

(***************************************************************************)
(* C24: every request gets a response or is rejected when the 30 second    *)
(* timer fires, so a loading flag that is true becomes false again.        *)
(***************************************************************************)
C24_LoadingEnds ==
  /\ app.loading ~> ~app.loading
  /\ app.heatmapLoading ~> ~app.heatmapLoading
  /\ app.equityLoading ~> ~app.equityLoading

(***************************************************************************)
(* C25: with a state filter active, the institutions of state Multi-State  *)
(* are in the institution selector's list and, when a heatmap is shown,    *)
(* among its rows.                                                         *)
(***************************************************************************)
C25_MultiStateAlwaysPasses ==
  app.selectedState # Null =>
    /\ \A i \in AppInstitutions :
         i.state = "Multi-State" => i \in filteredInstitutions(app.selectedState)
    /\ HeatmapShown(app) =>
         \A k \in 1..Len(app.heatmapData[1].entries) :
           app.heatmapData[1].entries[k].state = "Multi-State" =>
             app.heatmapData[1].entries[k]
               \in Range(FilteredEntries(app.heatmapData[1], app.selectedState))

(***************************************************************************)
(* C26: with a state filter active, the summary above the heatmap's rows   *)
(* counts exactly the rows listed, and its average, minimum, maximum,      *)
(* safest and riskiest institution are those of the rows, also when the    *)
(* filter matches no entry.                                                *)
(***************************************************************************)
C26_SummaryDescribesRows ==
  (app.selectedState # Null /\ HeatmapShown(app)) =>
    LET rows == FilteredEntries(app.heatmapData[1], app.selectedState)
        shown == DisplaySummary(app.heatmapData[1], app.selectedState)
    IN  /\ shown.num_institutions = Len(rows)
        /\ Len(rows) > 0 =>
             /\ \A k \in 1..Len(rows) :
                  /\ shown.min_risk <= rows[k].composite_risk
                  /\ rows[k].composite_risk <= shown.max_risk
             /\ \E k \in 1..Len(rows) :
                  /\ rows[k].composite_risk = shown.min_risk
                  /\ rows[k].institution_name = shown.best_institution_name
             /\ \E k \in 1..Len(rows) :
                  /\ rows[k].composite_risk = shown.max_risk
                  /\ rows[k].institution_name = shown.worst_institution_name

(***************************************************************************)
(* C29: with a state filter active, a selected institution is one of the   *)
(* filtered institutions: its state is the selected state or Multi-State.  *)
(***************************************************************************)
C29_SelectedInstPassesFilter ==
  (app.selectedState # Null /\ app.selectedInst # Null) =>
    \E i \in filteredInstitutions(app.selectedState) :
      i.id = app.selectedInst[1]

\* A state filter is active and an institution of that state is selected
\* together with a field, as after a click on its row of the filtered heatmap;
\* its report is being loaded.
C29_Witness ==
  /\ app.selectedState = Some("NSW")
  /\ app.selectedInst = Some(1)
  /\ app.selectedField = Some(1)
  /\ app.mode = "report"
  /\ app.loading

(***************************************************************************)
(* The CoursesView component: filters, option counts and the ATAR sliders  *)
(***************************************************************************)
\* At most this many courses are listed for an institution.
MaxCourses == 2

\* The courses an institution's list is drawn from.  An ATAR is held in half
\* points (161 is 80.5); level, field of study, fee type and ATAR can be
\* missing; terms are the search strings the course's title or code contains.
CourseCases ==
  {[course_code |-> "B", terms |-> {}, course_level |-> Some("TBP"),
    field_of_study |-> Some("Mixed Field Programs"), fee_type |-> Some("CSP"),
    atar_lowest_num |-> Some(190)],
   [course_code |-> "C", terms |-> {}, course_level |-> Some("TBP"),
    field_of_study |-> Null, fee_type |-> Some("CSP"),
    atar_lowest_num |-> Some(161)],
   [course_code |-> "D", terms |-> {"nurs"}, course_level |-> Some("PG"),
    field_of_study |-> Some("Health"), fee_type |-> Null,
    atar_lowest_num |-> Null],
   [course_code |-> "E", terms |-> {"nurs"}, course_level |-> Some("TBP"),
    field_of_study |-> Some("Health"), fee_type |-> Some("CSP"),
    atar_lowest_num |-> Some(80)]}

CourseLists == {c \in SUBSET CourseCases : Cardinality(c) <= MaxCourses}

Searches == {"", "nurs"}

\* x || d: the value, or d when it is missing.
OrElse(x, d) == IF x = Null THEN d ELSE x[1]

\* The least and the greatest of a non-empty set of numbers.
Least(S) == CHOOSE x \in S : \A y \in S : x <= y

Greatest(S) == CHOOSE x \in S : \A y \in S : x >= y

\* atarBounds: floor of the lowest ATAR and ceiling of the highest; 100 and 0
\* when no course has an ATAR.
atarBounds(courses) ==
  LET atars == {c.atar_lowest_num[1] :
                  c \in {x \in courses : x.atar_lowest_num # Null}}
  IN  IF atars = {}
      THEN [lo |-> 100, hi |-> 0]
      ELSE [lo |-> Least(atars) \div 2, hi |-> (Greatest(atars) + 1) \div 2]

levelOptions(courses) ==
  {c.course_level[1] : c \in {x \in courses : x.course_level # Null}}

fieldOptions(courses) ==
  {c.field_of_study[1] : c \in {x \in courses : x.field_of_study # Null}}

feeOptions(courses) ==
  {c.fee_type[1] : c \in {x \in courses : x.fee_type # Null}}

baseFiltered(v) ==
  IF v.search # ""
  THEN {c \in v.courses : v.search \in c.terms}
  ELSE v.courses

passesAtarFilter(v, c) ==
  /\ ~(v.hideNoAtar /\ c.atar_lowest_num = Null)
  /\ c.atar_lowest_num # Null =>
       ~(c.atar_lowest_num[1] < 2 * v.atarMin
           \/ c.atar_lowest_num[1] > 2 * v.atarMax)

matchesLevel(v, c) ==
  v.levelFilter = "all" \/ c.course_level = Some(v.levelFilter)

matchesField(v, c) ==
  v.fieldFilter = "all" \/ c.field_of_study = Some(v.fieldFilter)

matchesFee(v, c) == v.feeFilter = "all" \/ c.fee_type = Some(v.feeFilter)

\* The courses listed (their order plays no part here).
filtered(v) ==
  {c \in baseFiltered(v) :
     /\ matchesLevel(v, c)
     /\ matchesField(v, c)
     /\ matchesFee(v, c)
     /\ passesAtarFilter(v, c)}

\* dynamicCounts: the number shown beside an option of each dropdown.
levelCounts(v, key) ==
  Cardinality({c \in baseFiltered(v) :
                 /\ passesAtarFilter(v, c)
                 /\ matchesField(v, c) /\ matchesFee(v, c)
                 /\ OrElse(c.course_level, "Unknown") = key})

fieldCounts(v, key) ==
  Cardinality({c \in baseFiltered(v) :
                 /\ passesAtarFilter(v, c)
                 /\ matchesLevel(v, c) /\ matchesFee(v, c)
                 /\ OrElse(c.field_of_study, "Mixed Field Programs") = key})

feeCounts(v, key) ==
  Cardinality({c \in baseFiltered(v) :
                 /\ passesAtarFilter(v, c)
                 /\ matchesLevel(v, c) /\ matchesField(v, c)
                 /\ OrElse(c.fee_type, "Unknown") = key})

\* The clamp effect, run when the course data (and so atarBounds) changes.
Clamp(v) ==
  LET b == atarBounds(v.courses)
  IN  [v EXCEPT !.atarMin = IF v.atarMin < b.lo THEN b.lo ELSE @,
                !.atarMax = IF v.atarMax > b.hi THEN b.hi ELSE @]

\* useState: the component's state at mount.
InitialCourses(courses) ==
  [courses |-> courses, search |-> "", levelFilter |-> "TBP",
   fieldFilter |-> "all", feeFilter |-> "all", hideNoAtar |-> TRUE,
   atarMin |-> 50, atarMax |-> 99]

\* The positions a slider is moved to: its ends and its middle; a range
\* input whose max is below its min has its min as only position.
SliderStops(b) ==
  IF b.lo <= b.hi THEN {b.lo, (b.lo + b.hi) \div 2, b.hi} ELSE {b.lo}

\* CoursesView is mounted with one institution's courses; the clamp effect
\* has run once.  The store is at rest and the App's own state plays no part.
InitCourses ==
  /\ \E courses \in CourseLists : cv = Clamp(InitialCourses(courses))
  /\ app = Null
  /\ facts = EmptyFacts
  /\ equity = {}
  /\ StoreAtRest({})

SetView(new) ==
  /\ cv' = new
  /\ UNCHANGED << ingestion, reply, app >>

setSearch(q) ==
  /\ q \in Searches
  /\ SetView([cv EXCEPT !.search = q])

setLevelFilter(key) ==
  /\ key \in {"all"} \cup levelOptions(cv.courses)
  /\ SetView([cv EXCEPT !.levelFilter = key])

setFieldFilter(key) ==
  /\ key \in {"all"} \cup fieldOptions(cv.courses)
  /\ SetView([cv EXCEPT !.fieldFilter = key])

setFeeFilter(key) ==
  /\ key \in {"all"} \cup feeOptions(cv.courses)
  /\ SetView([cv EXCEPT !.feeFilter = key])

setHideNoAtar(checked) ==
  /\ checked \in BOOLEAN
  /\ SetView([cv EXCEPT !.hideNoAtar = checked])

\* The minimum slider is moved to position pos.
MoveMin(pos) ==
  /\ pos \in SliderStops(atarBounds(cv.courses))
  /\ SetView([cv EXCEPT !.atarMin =
               IF pos < cv.atarMax - 1 THEN pos ELSE cv.atarMax - 1])

\* The maximum slider is moved to position pos.
MoveMax(pos) ==
  /\ pos \in SliderStops(atarBounds(cv.courses))
  /\ SetView([cv EXCEPT !.atarMax =
               IF pos > cv.atarMin + 1 THEN pos ELSE cv.atarMin + 1])

\* Clear filters, offered when a filter is off its default or nothing is
\* listed.
ClearFilters ==
  /\ \/ cv.search # ""
     \/ cv.levelFilter # "TBP"
     \/ cv.fieldFilter # "all"
     \/ cv.feeFilter # "all"
     \/ ~cv.hideNoAtar
     \/ cv.atarMin # atarBounds(cv.courses).lo
     \/ cv.atarMax # atarBounds(cv.courses).hi
     \/ filtered(cv) = {}
  /\ SetView([cv EXCEPT !.search = "", !.levelFilter = "TBP",
                        !.fieldFilter = "all", !.feeFilter = "all",
                        !.hideNoAtar = TRUE,
                        !.atarMin = atarBounds(cv.courses).lo,
                        !.atarMax = atarBounds(cv.courses).hi])

\* The data prop changes to another course list: the clamp effect runs.
SetCourses(courses) ==
  /\ courses # cv.courses
  /\ SetView(Clamp([cv EXCEPT !.courses = courses]))

NextCourses ==
  \/ \E q \in Searches : setSearch(q)
  \/ \E key \in {"all"} \cup levelOptions(CourseCases) : setLevelFilter(key)
  \/ \E key \in {"all"} \cup fieldOptions(CourseCases) : setFieldFilter(key)
  \/ \E key \in {"all"} \cup feeOptions(CourseCases) : setFeeFilter(key)
  \/ \E checked \in BOOLEAN : setHideNoAtar(checked)
  \/ \E pos \in SliderStops(atarBounds(cv.courses)) : MoveMin(pos)
  \/ \E pos \in SliderStops(atarBounds(cv.courses)) : MoveMax(pos)
  \/ ClearFilters
  \/ \E courses \in CourseLists : SetCourses(courses)

SpecCourses == InitCourses /\ [][NextCourses]_vars

\* The courses that pass the search and the ATAR filters.
PassSearchAndAtar == {c \in baseFiltered(cv) : passesAtarFilter(cv, c)}

(***************************************************************************)
(* C27: the count beside an option of the level, field of study or fee     *)
(* type dropdown is the number of courses that pass the search, the ATAR   *)
(* filters and the two other dropdowns and carry the option's value; so    *)
(* the count of the selected option is the number of courses listed.       *)
(***************************************************************************)
C27_OptionCounts ==
  /\ \A key \in levelOptions(cv.courses) :
       /\ levelCounts(cv, key)
            = Cardinality({c \in PassSearchAndAtar :
                             /\ matchesField(cv, c) /\ matchesFee(cv, c)
                             /\ c.course_level = Some(key)})
       /\ cv.levelFilter = key =>
            levelCounts(cv, key) = Cardinality(filtered(cv))
  /\ \A key \in fieldOptions(cv.courses) :
       /\ fieldCounts(cv, key)
            = Cardinality({c \in PassSearchAndAtar :
                             /\ matchesLevel(cv, c) /\ matchesFee(cv, c)
                             /\ c.field_of_study = Some(key)})
       /\ cv.fieldFilter = key =>
            fieldCounts(cv, key) = Cardinality(filtered(cv))
  /\ \A key \in feeOptions(cv.courses) :
       /\ feeCounts(cv, key)
            = Cardinality({c \in PassSearchAndAtar :
                             /\ matchesLevel(cv, c) /\ matchesField(cv, c)
                             /\ c.fee_type = Some(key)})
       /\ cv.feeFilter = key =>
            feeCounts(cv, key) = Cardinality(filtered(cv))

(***************************************************************************)
(* C28: the ATAR range is well formed after every slider move, clearing of *)
(* the filters and change of the course data: atarMin <= atarMax, and both *)
(* are within atarBounds.lo and atarBounds.hi.                             *)
(***************************************************************************)
C28_AtarRangeWellFormed ==
  /\ cv.atarMin <= cv.atarMax
  /\ atarBounds(cv.courses).lo <= cv.atarMin
  /\ cv.atarMin <= atarBounds(cv.courses).hi
  /\ atarBounds(cv.courses).lo <= cv.atarMax
  /\ cv.atarMax <= atarBounds(cv.courses).hi

====
